---- MODULE Spec2Model ----
(***************************************************************************)
(* The text-editing engine of the editor crate: a rope buffer (value), a  *)
(* cursor (Index / Selection with a remembered horizontal offset) and the *)
(* Editor facade (insert / paste / backspace / delete).                    *)
(*                                                                         *)
(* A buffer is a sequence of characters; byte offsets are derived from the *)
(* UTF-8 length of each character, so byte indices and char indices differ *)
(* as soon as the buffer holds a multi-byte character.                      *)
(***************************************************************************)
EXTENDS Integers, Sequences, FiniteSets, TLC

\* Largest buffer, in characters.
MaxLen == 3

(***************************************************************************)
(* Characters.  "a" is an ASCII letter, "sp" a space, "lf" and "cr" the   *)
(* line feed and carriage return, "ee" a two-byte letter (U+00E9) and     *)
(* "cm" a two-byte combining mark (U+0301, Grapheme_Extend), "tab" a tab.  *)
(***************************************************************************)
Char == {"a", "sp", "lf", "cr", "ee", "cm", "tab"}

Letter == {"a", "ee"}

Whitespace == {"sp", "lf", "cr", "tab"}

len_utf8(c) == IF c \in {"ee", "cm"} THEN 2 ELSE 1

Utf8(c) ==
    CASE c = "ee" -> <<"C3", "A9">>
      [] c = "cm" -> <<"CC", "81">>
      [] OTHER    -> <<c>>

\* A panicking call, in place of the usize it would have returned.
PANIC == -1

\* usize::MAX, the result of 0 - 1 without overflow checks.  It is only ever
\* compared with buffer lengths.
USIZE_MAX == 2147483647

Min(a, b) == IF a <= b THEN a ELSE b

Max(a, b) == IF a >= b THEN a ELSE b

(***************************************************************************)
(* The rope (ropey::Rope), by the byte / char / line conversions the code *)
(* calls.                                                                  *)
(***************************************************************************)
len_chars(v) == Len(v)

char_to_byte(v, k) == k + Cardinality({j \in 1..k : len_utf8(v[j]) = 2})

len_bytes(v) == char_to_byte(v, Len(v))

\* The index of the char that holds byte b (b may lie inside a char).
byte_to_char(v, b) == Cardinality({k \in 1..Len(v) : char_to_byte(v, k) <= b})

is_char_boundary(v, b) == \E k \in 0..Len(v) : char_to_byte(v, k) = b

\* The byte at byte index i < len_bytes(v).
byte(v, i) ==
    LET k == byte_to_char(v, i)
    IN  Utf8(v[k + 1])[i - char_to_byte(v, k) + 1]

\* value.bytes(): the UTF-8 bytes of the text, in order.
bytes(v) == [i \in 1..len_bytes(v) |-> byte(v, i - 1)]

\* checked_sub(n).map(|i| value.byte(i)): "none" when the index underflows.
byte_before(v, pos, n) == IF pos >= n THEN byte(v, pos - n) ELSE "none"

\* Byte offsets right after a line break: LF, CR LF (one break) or a lone CR.
BreakEnds(v) ==
    {char_to_byte(v, k) : k \in {j \in 1..Len(v) :
        \/ v[j] = "lf"
        \/ v[j] = "cr" /\ ~(j < Len(v) /\ v[j + 1] = "lf")}}

len_lines(v) == Cardinality(BreakEnds(v)) + 1

byte_to_line(v, b) == Cardinality({p \in BreakEnds(v) : p <= b})

\* line_to_byte(len_lines) is len_bytes; beyond that the rope panics.
line_to_byte(v, l) ==
    IF l = 0 THEN 0
    ELSE IF l = len_lines(v) THEN len_bytes(v)
    ELSE IF l > len_lines(v) THEN PANIC
    ELSE CHOOSE p \in BreakEnds(v) : Cardinality({q \in BreakEnds(v) : q <= p}) = l

\* The chars of the byte range [from, to), both on char boundaries.
byte_slice(v, from, to) == SubSeq(v, byte_to_char(v, from) + 1, byte_to_char(v, to))

\* Rope::remove(char range) and Rope::insert(char index, text).
remove(v, from, to) == SubSeq(v, 1, from) \o SubSeq(v, to + 1, Len(v))

insert(v, at, text) == SubSeq(v, 1, at) \o text \o SubSeq(v, at + 1, Len(v))

(***************************************************************************)
(* Extended grapheme clusters (unicode-segmentation's GraphemeCursor):    *)
(* no break inside CR LF, nor before an Extend character that follows     *)
(* anything but a control.                                                  *)
(***************************************************************************)
GraphemeBreak(v, k) ==
    /\ ~(v[k] = "cr" /\ v[k + 1] = "lf")
    /\ ~(v[k + 1] = "cm" /\ v[k] \notin {"cr", "lf", "tab"})

GraphemeBoundaries(v) ==
    {0, len_bytes(v)} \cup
    {char_to_byte(v, k) : k \in {j \in 1..(Len(v) - 1) : GraphemeBreak(v, j)}}

SetMin(S) == CHOOSE x \in S : \A y \in S : x <= y

SetMax(S) == CHOOSE x \in S : \A y \in S : x >= y

\* next_grapheme that stops at the next character, inside a cluster or not.
next_grapheme_one_char(v, byte_index) ==
    IF byte_index > len_bytes(v) THEN PANIC
    ELSE IF byte_index = len_bytes(v) THEN len_bytes(v)
    ELSE IF ~is_char_boundary(v, byte_index) THEN PANIC
    ELSE char_to_byte(v, byte_to_char(v, byte_index) + 1)

next_grapheme(v, byte_index) ==
    IF byte_index > len_bytes(v) THEN PANIC
    ELSE IF byte_index = len_bytes(v) THEN len_bytes(v)
    ELSE IF ~is_char_boundary(v, byte_index) THEN PANIC
    ELSE SetMin({b \in GraphemeBoundaries(v) : b > byte_index})

\* previous_grapheme that stops at the previous character.
previous_grapheme_one_char(v, byte_index) ==
    IF byte_index > len_bytes(v) THEN PANIC
    ELSE IF byte_index = 0 THEN 0
    ELSE IF ~is_char_boundary(v, byte_index) THEN PANIC
    ELSE char_to_byte(v, byte_to_char(v, byte_index) - 1)

previous_grapheme(v, byte_index) ==
    IF byte_index > len_bytes(v) THEN PANIC
    ELSE IF byte_index = 0 THEN 0
    ELSE IF ~is_char_boundary(v, byte_index) THEN PANIC
    ELSE SetMax({b \in GraphemeBoundaries(v) : b < byte_index})

(***************************************************************************)
(* Word segments (split_word_bound_indices) of a slice s, in char offsets. *)
(***************************************************************************)
\* The char an Extend run after position k attaches to, "none" at the start
\* of the text or after a line break.
WordBase(s, k) ==
    LET js == {j \in 1..k : s[j] # "cm"}
    IN  IF js = {} THEN "none"
        ELSE IF s[SetMax(js)] \in {"cr", "lf"} THEN "none"
        ELSE s[SetMax(js)]

WordBreak(s, k) ==
    IF s[k] = "cr" /\ s[k + 1] = "lf" THEN FALSE
    ELSE IF s[k] \in {"cr", "lf"} \/ s[k + 1] \in {"cr", "lf"} THEN TRUE
    ELSE IF s[k] = "sp" /\ s[k + 1] = "sp" THEN FALSE
    ELSE IF s[k + 1] = "cm" THEN FALSE
    ELSE IF WordBase(s, k) \in Letter /\ s[k + 1] \in Letter THEN FALSE
    ELSE TRUE

WordEnds(s) == {k \in 1..Len(s) : k = Len(s) \/ WordBreak(s, k)}

WordStartOf(s, e) == SetMax({0} \cup {k \in WordEnds(s) : k < e})

\* !word.trim_start().is_empty()
NonBlank(s, e) == \E j \in (WordStartOf(s, e) + 1)..e : s[j] \notin Whitespace

\* The ends of the segments that hold something other than whitespace.
Words(s) == {e \in WordEnds(s) : NonBlank(s, e)}

\* next_end_of_word that advances by a single byte.
next_end_of_word_one_byte(v, byte_index) == Min(byte_index + 1, len_bytes(v))

next_end_of_word(v, byte_index) ==
    LET line_index      == byte_to_line(v, byte_index)
        next_line_start == line_to_byte(v, line_index + 1)
        line_end        == IF next_line_start = len_bytes(v) THEN len_bytes(v)
                           ELSE next_line_start - 1
        line            == byte_slice(v, byte_index, line_end)
    IN  IF byte_index > len_bytes(v) THEN PANIC
        ELSE IF byte_index = line_end THEN next_line_start
        ELSE IF ~is_char_boundary(v, byte_index) THEN PANIC
        ELSE IF Words(line) = {} THEN len_bytes(v)
        ELSE byte_index + char_to_byte(line, SetMin(Words(line)))

previous_start_of_word(v, byte_index) ==
    LET line_index == byte_to_line(v, byte_index)
        line_start == line_to_byte(v, line_index)
        line       == byte_slice(v, line_start, byte_index)
    IN  IF byte_index > len_bytes(v) THEN PANIC
        ELSE IF byte_index = line_start THEN Max(byte_index - 1, 0)
        ELSE IF ~is_char_boundary(v, byte_index) THEN PANIC
        ELSE IF Words(line) = {} THEN 0
        ELSE line_start + char_to_byte(line, WordStartOf(line, SetMax(Words(line))))

\* find_end_of_line without the test for "\r\n": always one byte back.
find_end_of_line_one_back(index, v, checked) ==
    LET next_line_start == line_to_byte(v, byte_to_line(v, index) + 1)
    IN  IF next_line_start >= 1 THEN next_line_start - 1
        ELSE IF checked THEN PANIC
        ELSE USIZE_MAX

\* cursor.rs find_end_of_line; checked tells whether the build checks
\* arithmetic overflow (it panics on 0 - 1) or wraps.
find_end_of_line(index, v, checked) ==
    LET next_line_start  == line_to_byte(v, byte_to_line(v, index) + 1)
        last_byte        == byte_before(v, next_line_start, 1)
        second_last_byte == byte_before(v, next_line_start, 2)
    IN  IF last_byte = "lf" /\ second_last_byte = "cr" THEN next_line_start - 2
        ELSE IF next_line_start >= 1 THEN next_line_start - 1
        ELSE IF checked THEN PANIC
        ELSE USIZE_MAX

(***************************************************************************)
(* Coordinates (lib.rs).  Widths are counted in cells of a monospace       *)
(* metrics provider: a letter or a space fills one cell, a combining mark *)
(* and a line terminator none; a tab is drawn as tab_width spaces.          *)
(***************************************************************************)
\* The tab width the widget is built with.
TabWidth == 4

\* No offset_x_hint: the None of Option<f32>.
None == -1

\* hit_test found no position: the provider's None.
NoHit == -2

\* value.line(l): the chars of line l, its terminator included.
line(v, l) == byte_slice(v, line_to_byte(v, l), line_to_byte(v, l + 1))

RECURSIVE replace_tab(_, _)
\* replace_tab: every tab of the text becomes tab_width spaces.
replace_tab(chunk, tab_width) ==
    IF chunk = <<>> THEN <<>>
    ELSE (IF Head(chunk) = "tab" THEN [k \in 1..tab_width |-> "sp"] ELSE <<Head(chunk)>>)
             \o replace_tab(Tail(chunk), tab_width)

\* line.display(tab_width).next(): the text of the line as it is drawn.
display(l, tab_width) == replace_tab(l, tab_width)

\* The glyph metrics provider the widget is drawn with (text::Renderer): the
\* monospace provider, or a provider whose hit_test answers hit whatever it
\* is asked (NoHit: it finds no position).
Monospace == [kind |-> "monospace", hit |-> NoHit]

Answers(hit) == [kind |-> "answers", hit |-> hit]

\* Renderer::measure_width, in cells.
measure_width(text) == Cardinality({k \in 1..Len(text) : text[k] \in {"a", "sp", "ee"}})

\* The byte offsets at which the grapheme clusters of text start, and their
\* number.
grapheme_indices(text) == GraphemeBoundaries(text) \ {len_bytes(text)}

NumGraphemes(text) == IF text = <<>> THEN 0 ELSE Cardinality(grapheme_indices(text))

\* The byte offset of grapheme boundary k of text (k = NumGraphemes: its end).
BoundaryByte(text, k) ==
    CHOOSE b \in GraphemeBoundaries(text) :
        Cardinality({c \in GraphemeBoundaries(text) : c < b}) = k

Abs(x) == IF x >= 0 THEN x ELSE 0 - x

\* Renderer::hit_test.  The monospace provider names the index, in graphemes,
\* of the boundary closest to the point, the first of them when several are
\* equally close; NoHit on an empty text.
hit_test(renderer, text, x) ==
    LET n == NumGraphemes(text)
        X == [k \in 0..n |-> measure_width(byte_slice(text, 0, BoundaryByte(text, k)))]
    IN  IF renderer.kind # "monospace" THEN renderer.hit
        ELSE IF text = <<>> THEN NoHit
        ELSE SetMin({k \in 0..n : \A j \in 0..n : Abs(X[k] - x) <= Abs(X[j] - x)})

RECURSIVE try_fold(_, _, _, _, _, _)
\* The fold of hit_byte_index over the bytes of the line, from byte j on with
\* the accumulator (i, num_tabs): i counts the bytes of the drawn text.
try_fold(bs, j, i, num_tabs, byte_index, tab_width) ==
    LET num_virtual_spaces == num_tabs * Max(tab_width - 1, 0)
    IN  IF j > Len(bs) THEN PANIC
        ELSE IF i >= byte_index THEN byte_index - num_virtual_spaces
        ELSE IF bs[j] = "tab"
             THEN IF i + tab_width > byte_index
                  THEN IF byte_index - i <= tab_width \div 2
                       THEN i - num_virtual_spaces
                       ELSE i - num_virtual_spaces + 1
                  ELSE try_fold(bs, j + 1, i + tab_width, num_tabs + 1,
                                byte_index, tab_width)
        ELSE try_fold(bs, j + 1, i + 1, num_tabs, byte_index, tab_width)

\* hit_byte_index: the byte offset in the line of the grapheme the provider
\* names in the drawn text; NoHit when the provider finds none.
hit_byte_index(renderer, l, tab_width, x) ==
    LET line_text  == display(l, tab_width)
        index      == hit_test(renderer, line_text, x)
        byte_index == BoundaryByte(line_text, index)
    IN  IF index = NoHit THEN NoHit
        ELSE IF index = len_bytes(line_text) THEN len_bytes(l)
        ELSE IF index >= NumGraphemes(line_text) THEN PANIC
        ELSE try_fold(bytes(l), 1, 0, 0, byte_index, tab_width)

\* index_at_point: the byte offset in the buffer of the point x cells from
\* the left of line line_num (the scroll offset is left out).
index_at_point(renderer, tab_width, v, line_num, x) ==
    LET line_start == line_to_byte(v, line_num)
        l          == line(v, line_num)
        line_text  == display(l, tab_width)
        offset     == hit_byte_index(renderer, l, tab_width, x)
    IN  IF line_num > len_lines(v) \/ line_start >= len_bytes(v) THEN len_bytes(v)
        ELSE IF \A k \in 1..Len(line_text) : line_text[k] \in Whitespace
             THEN line_start
        ELSE IF offset \in {NoHit, PANIC} THEN offset
        ELSE line_start + offset

\* The width of the text of s in the bytes [from, to), nothing for no text.
width_of_text(s, from, to) ==
    IF from = to THEN 0 ELSE measure_width(byte_slice(s, from, to))

\* The byte after the run of tabs that starts at byte i of s.
TabRunEnd(s, i) ==
    SetMin({j \in (i + 1)..len_bytes(s) : j = len_bytes(s) \/ byte(s, j) # "tab"})

RECURSIVE scan_chunk(_, _, _, _, _, _)
\* The while loop of width_of_slice over the bytes of chunk s, at byte i with
\* the text since text_start not yet measured: the text before a run of
\* tabs is measured, and the run counts tab_width spaces for each of its tabs.
scan_chunk(s, i, text_start, width, tab_width, space_width) ==
    IF i >= len_bytes(s) THEN [i |-> i, text_start |-> text_start, width |-> width]
    ELSE IF byte(s, i) = "tab"
         THEN scan_chunk(s, TabRunEnd(s, i), TabRunEnd(s, i),
                         width + width_of_text(s, text_start, i)
                               + space_width * tab_width * (TabRunEnd(s, i) - i),
                         tab_width, space_width)
    ELSE scan_chunk(s, i + 1, text_start, width, tab_width, space_width)

\* width_of_slice that takes a run of tabs for one tab.
width_of_slice_run_as_tab(slice, tab_width, space_width) ==
    measure_width(SelectSeq(slice, LAMBDA c : c # "tab"))
        + space_width * tab_width
            * Cardinality({k \in 1..Len(slice) :
                              slice[k] = "tab" /\ (k = 1 \/ slice[k - 1] # "tab")})

\* The storage of the rope: the char offsets at which a slice of it is split
\* into chunks (those inside the slice).  A small rope is one chunk.
VARIABLE chunk_ends

\* The k-th smallest element of S, from 0.
Nth(S, k) == CHOOSE b \in S : Cardinality({c \in S : c < b}) = k

\* slice.chunks(): the slice in its storage chunks, none for an empty slice.
chunks(slice) ==
    LET B == {0, Len(slice)} \cup {c \in chunk_ends : c < Len(slice)}
    IN  IF slice = <<>> THEN <<>>
        ELSE [k \in 1..(Cardinality(B) - 1) |->
                 SubSeq(slice, Nth(B, k - 1) + 1, Nth(B, k))]

\* The text scanned next that forgets the text left unmeasured.
carry_over_dropped(s, text_start, next) == next

\* s[text_start..].to_owned() + next: the text left unmeasured in s goes
\* before the next chunk.
carry_over(s, text_start, next) == byte_slice(s, text_start, len_bytes(s)) \o next

RECURSIVE chunk_loop(_, _, _, _, _)
\* The outer loop of width_of_slice: s is scanned; after the last chunk the
\* text since text_start is measured; before that the next chunk is scanned,
\* alone when s was measured to its end.
chunk_loop(s, rest, width, tab_width, space_width) ==
    LET r == scan_chunk(s, 0, 0, width, tab_width, space_width)
    IN  IF rest = <<>> THEN r.width + width_of_text(s, r.text_start, r.i)
        ELSE IF r.text_start = len_bytes(s)
             THEN chunk_loop(Head(rest), Tail(rest), r.width, tab_width, space_width)
        ELSE chunk_loop(carry_over(s, r.text_start, Head(rest)), Tail(rest),
                        r.width, tab_width, space_width)

\* width_of_slice: nothing for no chunk, the loop over the chunks otherwise.
width_of_slice(slice, tab_width, space_width) ==
    IF chunks(slice) = <<>> THEN 0
    ELSE chunk_loop(Head(chunks(slice)), Tail(chunks(slice)), 0,
                    tab_width, space_width)

(***************************************************************************)
(* Line display (rope_ext.rs): the lines of the buffer with tabs drawn as  *)
(* spaces.                                                                 *)
(***************************************************************************)
RECURSIVE extend(_, _)
\* chunk.extend(chunks.map(replace_tab)): the chunks left, drawn, in a row.
extend(cs, tab_width) ==
    IF cs = <<>> THEN <<>>
    ELSE replace_tab(Head(cs), tab_width) \o extend(Tail(cs), tab_width)

RopeDisplay_item_first_chunk(cs, tab_width) == replace_tab(Head(cs), tab_width)

\* The item RopeDisplay::next yields for a line stored as the chunks cs.
RopeDisplay_item(cs, tab_width) ==
    LET chunk == replace_tab(Head(cs), tab_width)
    IN  IF Len(cs) = 1 THEN chunk
        ELSE chunk \o replace_tab(cs[2], tab_width)
                 \o extend(Tail(Tail(cs)), tab_width)

\* RopeDisplay::next for line n and the items after it: the iteration ends
\* at the first line without a chunk.
RECURSIVE RopeDisplay(_, _, _)
RopeDisplay(v, n, tab_width) ==
    IF n >= len_lines(v) \/ chunks(line(v, n)) = <<>> THEN <<>>
    ELSE <<RopeDisplay_item(chunks(line(v, n)), tab_width)>>
             \o RopeDisplay(v, n + 1, tab_width)

\* value.display(tab_width), collected.
display_lines(v, tab_width) == RopeDisplay(v, 0, tab_width)

width_of_range(from, to, v, tab_width) ==
    IF ~is_char_boundary(v, from) \/ ~is_char_boundary(v, to) THEN PANIC
    ELSE width_of_slice(byte_slice(v, from, to), tab_width, measure_width(<<"sp">>))

offset_x_of_index(index, v, tab_width) ==
    width_of_range(line_to_byte(v, byte_to_line(v, index)), index, v, tab_width)

\* The line holds nothing, or nothing but its terminator: the match on its
\* first two bytes in find_index_above and find_index_below.
StartsWithTerminator(l) ==
    LET b == bytes(l)
    IN  \/ Len(b) = 0
        \/ b[1] = "lf"
        \/ b[1] = "cr" /\ (Len(b) = 1 \/ b[2] = "lf")

\* A panic of find_index_above / find_index_below.
NoIndex == [index |-> PANIC, offset_x |-> 0]

find_index_above(index, offset_x_hint, v, renderer, tab_width) ==
    LET line_index          == byte_to_line(v, index)
        offset_x            == IF offset_x_hint # None THEN offset_x_hint
                               ELSE offset_x_of_index(index, v, tab_width)
        previous_line_start == line_to_byte(v, line_index - 1)
        previous_line       == line(v, line_index - 1)
        hit                 == hit_byte_index(renderer, previous_line, tab_width,
                                              offset_x)
    IN  IF line_index = 0 THEN [index |-> 0, offset_x |-> 0]
        ELSE IF offset_x = PANIC THEN NoIndex
        ELSE IF StartsWithTerminator(previous_line)
             THEN [index |-> previous_line_start, offset_x |-> offset_x]
        ELSE IF hit \in {NoHit, PANIC} THEN NoIndex
        ELSE [index |-> previous_line_start + hit, offset_x |-> offset_x]

find_index_below(index, offset_x_hint, v, renderer, tab_width) ==
    LET line_index      == byte_to_line(v, index)
        offset_x        == IF offset_x_hint # None THEN offset_x_hint
                           ELSE offset_x_of_index(index, v, tab_width)
        next_line_start == line_to_byte(v, line_index + 1)
        next_line       == line(v, line_index + 1)
        hit             == hit_byte_index(renderer, next_line, tab_width, offset_x)
    IN  IF line_index + 1 = len_lines(v)
        THEN [index    |-> len_bytes(v),
              offset_x |-> offset_x_of_index(len_bytes(v), v, tab_width)]
        ELSE IF offset_x = PANIC THEN NoIndex
        ELSE IF StartsWithTerminator(next_line)
             THEN [index |-> next_line_start, offset_x |-> offset_x]
        ELSE IF hit \in {NoHit, PANIC} THEN NoIndex
        ELSE [index |-> next_line_start + hit, offset_x |-> offset_x]

(***************************************************************************)
(* Cursor (cursor.rs).  A cursor is [state, offset_x_hint]; a state is    *)
(* [kind, start, end] with start = end for kind "Index".  The hint is a   *)
(* horizontal offset, or None.                                             *)
(***************************************************************************)
Index(i) == [kind |-> "Index", start |-> i, end |-> i]

Selection(s, e) == [kind |-> "Selection", start |-> s, end |-> e]

\* Cursor::default
DefaultCursor == [state |-> Index(0), offset_x_hint |-> None]

\* Cursor::state that returns the stored fields without clamping them.
state_unclamped(c, v) ==
    IF c.state.kind = "Selection" /\ c.state.start = c.state.end
    THEN Index(c.state.start)
    ELSE c.state

\* Cursor::state: both fields clamped to the buffer, a zero-width selection
\* read as an Index.
state(c, v) ==
    LET start == Min(c.state.start, len_bytes(v))
        end   == Min(c.state.end, len_bytes(v))
    IN  IF c.state.kind = "Index" THEN Index(start)
        ELSE IF start = end THEN Index(start)
        ELSE Selection(start, end)

\* Cursor::selection that returns (start, end) in the stored order.
selection_unordered(c, v) ==
    LET st == state(c, v)
    IN  IF st.kind = "Selection"
        THEN [some |-> TRUE, low |-> st.start, high |-> st.end]
        ELSE [some |-> FALSE, low |-> 0, high |-> 0]

\* Cursor::selection: [some, low, high]
selection(c, v) ==
    LET st == state(c, v)
    IN  IF st.kind = "Selection"
        THEN [some |-> TRUE, low |-> Min(st.start, st.end), high |-> Max(st.start, st.end)]
        ELSE [some |-> FALSE, low |-> 0, high |-> 0]

start(c, v) == Min(c.state.start, len_bytes(v))

end(c, v) == Min(c.state.end, len_bytes(v))

(***************************************************************************)
(* Operations act on m = [value, cursor, ok]; ok = FALSE once a call has  *)
(* panicked, and what was written before the panic is kept.                *)
(***************************************************************************)
Abort(m) == [m EXCEPT !.ok = FALSE]

move_to_impl(m, position) ==
    IF position = PANIC THEN Abort(m)
    ELSE [m EXCEPT !.cursor.state = Index(position)]

\* offset_x_hint left as it is.
hint_kept(m) == m

clear_hint(m) == [m EXCEPT !.cursor.offset_x_hint = None]

move_to_byte(m, position) ==
    IF position = PANIC THEN Abort(m)
    ELSE clear_hint(move_to_impl(m, position))

\* select_range_impl that stores the two ends in the other order.
select_range_impl_swapped(m, s, e) ==
    IF s = PANIC \/ e = PANIC THEN Abort(m)
    ELSE IF s = e THEN [m EXCEPT !.cursor.state = Index(s)]
    ELSE [m EXCEPT !.cursor.state = Selection(e, s)]

select_range_impl(m, s, e) ==
    IF s = PANIC \/ e = PANIC THEN Abort(m)
    ELSE IF s = e THEN [m EXCEPT !.cursor.state = Index(s)]
    ELSE [m EXCEPT !.cursor.state = Selection(s, e)]

\* In the select_* operations the hint is cleared after the match.
then_clear_hint(m) == IF m.ok THEN clear_hint(m) ELSE m

select_range(m, s, e) == then_clear_hint(select_range_impl(m, s, e))

move_right(m) ==
    LET st == state(m.cursor, m.value)
    IN  IF st.kind = "Selection" THEN move_to_byte(m, Max(st.end, st.start))
        ELSE move_to_byte(m, next_grapheme(m.value, st.start))

move_right_by_words(m) ==
    then_clear_hint(move_to_impl(m, next_end_of_word(m.value, end(m.cursor, m.value))))

move_right_by_line(m, checked) ==
    then_clear_hint(
        move_to_impl(m, find_end_of_line(end(m.cursor, m.value), m.value, checked)))

move_right_by_bytes(m, amount) ==
    LET st == state(m.cursor, m.value)
    IN  IF st.kind = "Index"
        THEN clear_hint(move_to_impl(m, Min(st.start + amount, len_bytes(m.value))))
        ELSE clear_hint(move_to_impl(m, Max(st.end, st.start)))

\* move_left that steps back one grapheme from the low end of a selection too.
move_left_past_selection(m) ==
    LET st == state(m.cursor, m.value)
        lo == Min(st.start, st.end)
    IN  IF lo > 0 THEN move_to_byte(m, previous_grapheme(m.value, lo))
        ELSE move_to_byte(m, 0)

move_left(m) ==
    LET st == state(m.cursor, m.value)
    IN  IF st.kind = "Selection" THEN move_to_byte(m, Min(st.start, st.end))
        ELSE IF st.start > 0 THEN move_to_byte(m, previous_grapheme(m.value, st.start))
        ELSE move_to_byte(m, 0)

move_left_by_words(m) ==
    then_clear_hint(
        move_to_impl(m, previous_start_of_word(m.value, start(m.cursor, m.value))))

move_left_by_line(m) ==
    move_to_byte(m, line_to_byte(m.value, byte_to_line(m.value, start(m.cursor, m.value))))

select_left(m) ==
    LET st == state(m.cursor, m.value)
    IN  then_clear_hint(
            IF st.end > 0
            THEN select_range_impl(m, st.start, previous_grapheme(m.value, st.end))
            ELSE m)

select_right(m) ==
    LET st == state(m.cursor, m.value)
    IN  then_clear_hint(
            IF st.end < len_bytes(m.value)
            THEN select_range_impl(m, st.start, next_grapheme(m.value, st.end))
            ELSE m)

select_left_by_words(m) ==
    LET st == state(m.cursor, m.value)
    IN  then_clear_hint(
            select_range_impl(m, st.start, previous_start_of_word(m.value, st.end)))

select_right_by_words(m) ==
    LET st == state(m.cursor, m.value)
    IN  then_clear_hint(
            select_range_impl(m, st.start, next_end_of_word(m.value, st.end)))

select_left_by_line(m) ==
    LET st == state(m.cursor, m.value)
    IN  then_clear_hint(
            select_range_impl(m, st.start,
                line_to_byte(m.value, byte_to_line(m.value, st.end))))

select_right_by_line(m, checked) ==
    LET st == state(m.cursor, m.value)
    IN  then_clear_hint(
            select_range_impl(m, st.start, find_end_of_line(st.end, m.value, checked)))

\* select_all that keeps the start of the cursor as the anchor.
select_all_from_start(m) ==
    clear_hint(select_range_impl(m, start(m.cursor, m.value), len_bytes(m.value)))

select_all(m) == clear_hint(select_range_impl(m, 0, len_bytes(m.value)))

\* self.offset_x_hint = Some(offset_x), after a move that did not abort
set_hint(m, offset_x) == IF m.ok THEN [m EXCEPT !.cursor.offset_x_hint = offset_x] ELSE m

move_up(m, renderer, tab_width) ==
    LET st    == state(m.cursor, m.value)
        above == find_index_above(Min(st.start, st.end), m.cursor.offset_x_hint,
                                  m.value, renderer, tab_width)
    IN  IF st.kind = "Index" /\ st.start = 0 THEN move_to_impl(m, 0)
        ELSE set_hint(move_to_impl(m, above.index), above.offset_x)

\* move_down that looks below the moving end of a selection, not below its
\* high boundary.
move_down_from_end(m, renderer, tab_width) ==
    LET st    == state(m.cursor, m.value)
        below == find_index_below(st.end, m.cursor.offset_x_hint, m.value,
                                  renderer, tab_width)
    IN  set_hint(move_to_impl(m, below.index), below.offset_x)

move_down(m, renderer, tab_width) ==
    LET st    == state(m.cursor, m.value)
        below == find_index_below(Max(st.end, st.start), m.cursor.offset_x_hint,
                                  m.value, renderer, tab_width)
    IN  set_hint(move_to_impl(m, below.index), below.offset_x)

select_up(m, renderer, tab_width) ==
    LET st    == state(m.cursor, m.value)
        above == find_index_above(st.end, m.cursor.offset_x_hint, m.value,
                                  renderer, tab_width)
    IN  IF st.end > 0
        THEN set_hint(select_range_impl(m, st.start, above.index), above.offset_x)
        ELSE m

select_down(m, renderer, tab_width) ==
    LET st    == state(m.cursor, m.value)
        below == find_index_below(st.end, m.cursor.offset_x_hint, m.value,
                                  renderer, tab_width)
    IN  IF st.end < len_bytes(m.value)
        THEN set_hint(select_range_impl(m, st.start, below.index), below.offset_x)
        ELSE m

(***************************************************************************)
(* Editor (editor.rs).  Rope::remove and Rope::insert take char indices   *)
(* and panic when these lie beyond len_chars.                               *)
(***************************************************************************)
rope_remove(m, from, to) ==
    IF ~m.ok THEN m
    ELSE IF from > to \/ to > len_chars(m.value) THEN Abort(m)
    ELSE [m EXCEPT !.value = remove(m.value, from, to)]

rope_insert(m, at, text) ==
    IF ~m.ok THEN m
    ELSE IF at > len_chars(m.value) THEN Abort(m)
    ELSE [m EXCEPT !.value = insert(m.value, at, text)]

\* if let Some((left, right)) = cursor.selection(value) { move_left; remove }
delete_selection(m) ==
    LET sel == selection(m.cursor, m.value)
        m1  == move_left(m)
    IN  IF sel.some
        THEN rope_remove(m1, byte_to_char(m1.value, sel.low),
                             byte_to_char(m1.value, sel.high))
        ELSE m

Editor_insert(m, character) ==
    LET m1 == delete_selection(m)
        m2 == rope_insert(m1,
                  byte_to_char(m1.value, end(m1.cursor, m1.value)), <<character>>)
    IN  IF m2.ok THEN move_right(m2) ELSE m2

Editor_paste(m, content) ==
    LET length == len_bytes(content)
        m1     == delete_selection(m)
        m2     == rope_insert(m1,
                      byte_to_char(m1.value, end(m1.cursor, m1.value)), content)
    IN  IF m2.ok THEN move_right_by_bytes(m2, length) ELSE m2

Editor_backspace(m) ==
    LET sel == selection(m.cursor, m.value)
        st  == start(m.cursor, m.value)
    IN  IF sel.some THEN delete_selection(m)
        ELSE IF st > 0 THEN rope_remove(move_left(m), st - 1, st)
        ELSE m

Editor_delete(m) ==
    LET sel == selection(m.cursor, m.value)
        e   == end(m.cursor, m.value)
    IN  IF sel.some THEN Editor_backspace(m)
        ELSE IF e < len_bytes(m.value) THEN rope_remove(m, e, e + 1)
        ELSE m

(***************************************************************************)
(* The state machine.  value and cursor are the widget State's fields;    *)
(* panicked is set when a call aborted the program.  Each operation is one *)
(* step from "idle" to "handled", and last records which operation ran and *)
(* the buffer and cursor it started from; Return forgets it.                *)
(***************************************************************************)
\* value and cursor are the State of the widget; renderer and tab_width are
\* what the widget is drawn with, the same through its life.
VARIABLES value, cursor, panicked, pc, last, renderer, tab_width

\* The rest of the widget's State (focus, the paste in progress, the keyboard
\* modifiers), the clipboard, and the status update returns for the event
\* being handled.
VARIABLES is_focused, is_pasting, keyboard_modifiers, clipboard, status

\* The tab list of the application (model/mod.rs) and the index of its active
\* tab; last_tabs records the call made on it last and what it started from.
VARIABLES tabs, active_tab, last_tabs

vars == <<value, cursor, panicked, pc, last, renderer, tab_width, chunk_ends,
          is_focused, is_pasting, keyboard_modifiers, clipboard, status,
          tabs, active_tab, last_tabs>>

NoLast == [op |-> "none", pos |-> 0, text |-> <<>>, value |-> <<>>,
           cursor |-> DefaultCursor]

\* The characters typed and held by the buffers of this state machine: an
\* ASCII letter, both line-terminator characters and a multi-byte character
\* that also extends a grapheme cluster.
EditChars == {"a", "lf", "cr", "cm"}

Buffers == UNION {[1..n -> EditChars] : n \in 0..MaxLen}

\* Texts the clipboard may hold.
PasteTexts == {<<>>, <<"a">>, <<"cm", "lf">>}

\* The characters of the buffers the coordinates are checked on: a letter, a
\* two-byte letter, a tab and a line terminator.
CoordChars == {"a", "ee", "tab", "lf"}

CoordBuffers == UNION {[1..n -> CoordChars] : n \in 0..MaxLen}

MaxTabWidth == 3

TabWidths == 0..MaxTabWidth

\* The widest a line is drawn, in cells; the points of the pointer lie up to
\* there.
MaxX == MaxLen * MaxTabWidth

\* The providers: the monospace one, and for every index one that answers it.
Renderers == {Monospace} \cup {Answers(k) : k \in {NoHit} \cup 0..MaxX}

\* Positions the widget passes to the cursor: a hit test names a grapheme
\* boundary of the buffer; home and end name 0 and len_bytes.
Positions(v) == GraphemeBoundaries(v)

\* Positions a caller of the cursor's methods may pass at all: any byte
\* offset, inside a character or past the end of the buffer.
AnyPositions(v) == 0..(len_bytes(v) + 1)

\* No call has been made on the tab list.
NoLastTabs == [op |-> "none", index |-> 0, tabs |-> <<>>, active_tab |-> 0]

\* Tabs::default(): no tab, and the index 0.
NoTabs ==
    /\ tabs = <<>>
    /\ active_tab = 0
    /\ last_tabs = NoLastTabs

\* State::focused() beside an empty clipboard: the widget the cursor and the
\* editor are driven from.
Focused ==
    /\ is_focused = TRUE
    /\ is_pasting = [some |-> FALSE, content |-> <<>>]
    /\ keyboard_modifiers = [shift |-> FALSE, control |-> FALSE]
    /\ clipboard = <<>>
    /\ status = "Ignored"

Init ==
    /\ value \in Buffers
    /\ cursor = DefaultCursor
    /\ panicked = FALSE
    /\ pc = "idle"
    /\ last = NoLast
    /\ chunk_ends = {}
    /\ renderer = Monospace
    /\ tab_width = TabWidth
    /\ Focused
    /\ NoTabs

Me == [value |-> value, cursor |-> cursor, ok |-> TRUE]

\* One operation, from the idle widget: r is what the operation returns.
Handle(op, pos, text, r) ==
    /\ pc = "idle"
    /\ ~panicked
    /\ Len(r.value) <= MaxLen
    /\ value' = r.value
    /\ cursor' = r.cursor
    /\ panicked' = ~r.ok
    /\ pc' = "handled"
    /\ last' = [op |-> op, pos |-> pos, text |-> text, value |-> value,
                cursor |-> cursor]
    /\ UNCHANGED <<renderer, tab_width, chunk_ends, is_focused, is_pasting,
                   keyboard_modifiers, clipboard, status,
                   tabs, active_tab, last_tabs>>

Return ==
    /\ pc = "handled"
    /\ ~panicked
    /\ pc' = "idle"
    /\ last' = NoLast
    /\ status' = "Ignored"
    /\ UNCHANGED <<value, cursor, panicked, renderer, tab_width, chunk_ends,
                   is_focused, is_pasting, keyboard_modifiers, clipboard,
                   tabs, active_tab, last_tabs>>

MoveToByte == \E p \in Positions(value) : Handle("move_to_byte", p, <<>>, move_to_byte(Me, p))

\* select_range(cursor.start(value), position): a drag, shift+home, shift+end
SelectRange ==
    \E p \in Positions(value) :
        Handle("select_range", p, <<>>, select_range(Me, start(cursor, value), p))

\* move_to_byte and select_range called with any position.
MoveToAnyByte ==
    \E p \in AnyPositions(value) : Handle("move_to_byte", p, <<>>, move_to_byte(Me, p))

SelectAnyRange ==
    \E p \in AnyPositions(value) :
        Handle("select_range", p, <<>>, select_range(Me, start(cursor, value), p))

\* select_range(previous_start_of_word(position), next_end_of_word(position)):
\* a double click
SelectWord ==
    \E p \in Positions(value) :
        Handle("select_word", p, <<>>,
               select_range(Me, previous_start_of_word(value, p),
                                next_end_of_word(value, p)))

MoveRight == Handle("move_right", 0, <<>>, move_right(Me))

MoveRightByWords == Handle("move_right_by_words", 0, <<>>, move_right_by_words(Me))

MoveRightByLine ==
    \E checked \in BOOLEAN :
        Handle("move_right_by_line", 0, <<>>, move_right_by_line(Me, checked))

MoveLeft == Handle("move_left", 0, <<>>, move_left(Me))

MoveLeftByWords == Handle("move_left_by_words", 0, <<>>, move_left_by_words(Me))

MoveLeftByLine == Handle("move_left_by_line", 0, <<>>, move_left_by_line(Me))

SelectLeft == Handle("select_left", 0, <<>>, select_left(Me))

SelectRight == Handle("select_right", 0, <<>>, select_right(Me))

SelectLeftByWords == Handle("select_left_by_words", 0, <<>>, select_left_by_words(Me))

SelectRightByWords == Handle("select_right_by_words", 0, <<>>, select_right_by_words(Me))

SelectLeftByLine == Handle("select_left_by_line", 0, <<>>, select_left_by_line(Me))

SelectRightByLine ==
    \E checked \in BOOLEAN :
        Handle("select_right_by_line", 0, <<>>, select_right_by_line(Me, checked))

SelectAll == Handle("select_all", 0, <<>>, select_all(Me))

MoveUp == Handle("move_up", 0, <<>>, move_up(Me, renderer, tab_width))

MoveDown == Handle("move_down", 0, <<>>, move_down(Me, renderer, tab_width))

SelectUp == Handle("select_up", 0, <<>>, select_up(Me, renderer, tab_width))

SelectDown == Handle("select_down", 0, <<>>, select_down(Me, renderer, tab_width))

\* The points of the pointer, in cells from the left of a line.  A provider
\* that answers the same whatever it is asked is asked about one point only.
Points == IF renderer = Monospace THEN 0..MaxX ELSE {0}

\* A single click at the point x cells from the left of line line_num; at
\* the origin of the text no hit test is made.
Click ==
    \E line_num \in 0..len_lines(value), x \in Points, at_origin \in BOOLEAN :
        LET position == IF at_origin THEN NoHit
                        ELSE index_at_point(renderer, tab_width, value, line_num, x)
        IN  /\ at_origin => line_num = 0 /\ x = 0
            /\ Handle("click", <<line_num, x>>, <<>>,
                      IF position = PANIC THEN Abort(Me)
                      ELSE move_to_byte(Me, IF position = NoHit THEN 0 ELSE position))

Insert == \E ch \in EditChars : Handle("insert", 0, <<ch>>, Editor_insert(Me, ch))

Paste == \E text \in PasteTexts : Handle("paste", 0, text, Editor_paste(Me, text))

Backspace == Handle("backspace", 0, <<>>, Editor_backspace(Me))

Delete == Handle("delete", 0, <<>>, Editor_delete(Me))

Next ==
    \/ MoveToByte \/ SelectRange \/ SelectWord
    \/ MoveRight \/ MoveRightByWords \/ MoveRightByLine
    \/ MoveLeft \/ MoveLeftByWords \/ MoveLeftByLine
    \/ SelectLeft \/ SelectRight
    \/ SelectLeftByWords \/ SelectRightByWords
    \/ SelectLeftByLine \/ SelectRightByLine
    \/ SelectAll
    \/ MoveUp \/ MoveDown \/ SelectUp \/ SelectDown
    \/ Insert \/ Paste \/ Backspace \/ Delete
    \/ Return

\* The cursor and the editor as the widget drives them.
Spec == Init /\ [][Next]_vars

NextAnyPos == Next \/ MoveToAnyByte \/ SelectAnyRange

\* The same, with move_to_byte and select_range also called with arbitrary
\* positions.
SpecAnyPos == Init /\ [][NextAnyPos]_vars

InitCoord ==
    /\ value \in CoordBuffers
    /\ cursor = DefaultCursor
    /\ panicked = FALSE
    /\ pc = "idle"
    /\ last = NoLast
    /\ chunk_ends = {}
    /\ renderer \in {Monospace, Answers(NoHit)}
    /\ tab_width \in TabWidths
    /\ Focused
    /\ NoTabs

NextCoord ==
    \/ MoveToByte
    \/ MoveUp \/ MoveDown \/ SelectUp \/ SelectDown
    \/ Return

\* The vertical moves on buffers with tabs, drawn with any tab width by the
\* monospace provider or by one that finds no position.
SpecCoord == InitCoord /\ [][NextCoord]_vars

\* The characters of the buffers the word moves are checked on: a letter, a
\* space and both line-terminator characters.
WordChars == {"a", "sp", "lf", "cr"}

WordBuffers == UNION {[1..n -> WordChars] : n \in 0..MaxLen}

InitWords ==
    /\ value \in WordBuffers
    /\ cursor = DefaultCursor
    /\ panicked = FALSE
    /\ pc = "idle"
    /\ last = NoLast
    /\ chunk_ends = {}
    /\ renderer = Monospace
    /\ tab_width = TabWidth
    /\ Focused
    /\ NoTabs

NextWords ==
    \/ MoveToByte
    \/ MoveRightByWords \/ MoveLeftByWords
    \/ SelectRightByWords \/ SelectLeftByWords
    \/ Return

\* The moves by words on buffers with spaces.
SpecWords == InitWords /\ [][NextWords]_vars

\* The same buffers, tab widths and providers on a rope stored in chunks,
\* split anywhere.
InitChunks ==
    /\ value \in CoordBuffers
    /\ cursor = DefaultCursor
    /\ panicked = FALSE
    /\ pc = "idle"
    /\ last = NoLast
    /\ chunk_ends \in SUBSET (1..(MaxLen - 1))
    /\ renderer = Monospace
    /\ tab_width \in TabWidths
    /\ Focused
    /\ NoTabs

NextChunks == MoveToByte \/ MoveUp \/ MoveDown \/ Return

\* move_up and move_down on a rope whose storage is split into chunks.
SpecChunks == InitChunks /\ [][NextChunks]_vars

InitHit ==
    /\ value \in CoordBuffers
    /\ cursor = DefaultCursor
    /\ panicked = FALSE
    /\ pc = "idle"
    /\ last = NoLast
    /\ chunk_ends = {}
    /\ renderer \in Renderers
    /\ tab_width \in TabWidths
    /\ Focused
    /\ NoTabs

NextHit == Click \/ Return

\* The pointer on buffers with tabs, drawn with any tab width by any
\* provider.
SpecHit == InitHit /\ [][NextHit]_vars

(***************************************************************************)
(* The widget's update (lib.rs): focus, the paste in progress, the stored  *)
(* keyboard modifiers and the clipboard around the cursor and the editor.  *)
(* The modifiers are those of a build that is not for macOS: command() and *)
(* the jump modifier are both the control key.                             *)
(***************************************************************************)
\* Option<String>: the None and the Some(content) of is_pasting.
NotPasting == [some |-> FALSE, content |-> <<>>]

Pasting(content) == [some |-> TRUE, content |-> content]

\* keyboard::Modifiers::default(): no key held.
NoModifiers == [shift |-> FALSE, control |-> FALSE]

Modifiers == [shift : BOOLEAN, control : BOOLEAN]

command(modifiers) == modifiers.control

is_jump_modifier_pressed(modifiers) == modifiers.control

\* The fields of State the handlers of update work on, ok and the returned
\* status with them.
Widget ==
    [value |-> value, cursor |-> cursor, ok |-> TRUE,
     is_focused |-> is_focused, is_pasting |-> is_pasting,
     keyboard_modifiers |-> keyboard_modifiers, clipboard |-> clipboard,
     status |-> "Ignored"]

\* The editor borrowed from the state, and the state with what it did.
EditorOf(w) == [value |-> w.value, cursor |-> w.cursor, ok |-> w.ok]

Edited(w, m) == [w EXCEPT !.value = m.value, !.cursor = m.cursor, !.ok = m.ok]

Captured(w) == [w EXCEPT !.status = "Captured"]

\* State::recalculate_scroll_offset: the offset of the cursor is measured
\* again (the scroll itself is not part of this state).
recalculate_scroll_offset(w) ==
    IF ~w.ok THEN w
    ELSE IF offset_x_of_index(end(w.cursor, w.value), w.value, tab_width) = PANIC
    THEN [w EXCEPT !.ok = FALSE]
    ELSE w

\* A left press or a finger press, inside the bounds of the widget or not;
\* inside, a single click on position, a double click or a triple click.
button_pressed(w, is_clicked, kind, position) ==
    LET f  == [w EXCEPT !.is_focused = is_clicked]
        me == EditorOf(f)
        at == IF position = NoHit THEN 0 ELSE position
    IN  IF ~is_clicked THEN f
        ELSE IF position = PANIC THEN [f EXCEPT !.ok = FALSE]
        ELSE Captured(Edited(f,
                 CASE kind = "Single" -> move_to_byte(me, at)
                   [] kind = "Double" ->
                          select_range(me, previous_start_of_word(f.value, at),
                                           next_end_of_word(f.value, at))
                   [] OTHER -> select_all(me)))

\* editor.insert(c), and editor.insert('\n') after a '\r'.
insert_received(m, c) ==
    LET m1 == Editor_insert(m, c)
    IN  IF c = "cr" /\ m1.ok THEN Editor_insert(m1, "lf") ELSE m1

character_received_unfocused(w, c) ==
    IF ~w.is_pasting.some /\ ~command(w.keyboard_modifiers)
    THEN Captured(recalculate_scroll_offset(
             Edited(w, insert_received(EditorOf(w), c))))
    ELSE w

\* Event::Keyboard(CharacterReceived(c)), c a character that is not a
\* control character or is one of '\n', '\r', '\t'.
character_received(w, c) ==
    IF w.is_focused /\ ~w.is_pasting.some /\ ~command(w.keyboard_modifiers)
    THEN Captured(recalculate_scroll_offset(
             Edited(w, insert_received(EditorOf(w), c))))
    ELSE w

pasted_content_read_again(w) == w.clipboard

\* The content a command+V pastes: the one captured, or the clipboard's.
pasted_content(w) ==
    IF w.is_pasting.some THEN w.is_pasting.content ELSE w.clipboard

KeyCodes ==
    {"Enter", "Backspace", "Delete", "Left", "Right", "Up", "Down", "Home",
     "End", "C", "X", "V", "A", "Escape", "Tab", "Other"}

\* The arm of the match on key_code in KeyPressed, for a focused widget.
key_arm(w, key_code, checked) ==
    LET modifiers == w.keyboard_modifiers
        me        == EditorOf(w)
        jump      == is_jump_modifier_pressed(modifiers)
        sel       == selection(w.cursor, w.value)
        copied    == [w EXCEPT !.clipboard = byte_slice(w.value, sel.low, sel.high)]
    IN  CASE key_code = "Backspace" ->
                 recalculate_scroll_offset(Edited(w,
                     IF jump /\ ~sel.some
                     THEN LET s == select_left_by_words(me)
                          IN  IF s.ok THEN Editor_backspace(s) ELSE s
                     ELSE Editor_backspace(me)))
          [] key_code = "Delete" ->
                 recalculate_scroll_offset(Edited(w,
                     IF jump /\ ~sel.some
                     THEN LET s == select_right_by_words(me)
                          IN  IF s.ok THEN Editor_delete(s) ELSE s
                     ELSE Editor_delete(me)))
          [] key_code = "Left" ->
                 recalculate_scroll_offset(Edited(w,
                     IF jump
                     THEN (IF modifiers.shift THEN select_left_by_words(me)
                           ELSE move_left_by_words(me))
                     ELSE IF modifiers.shift THEN select_left(me)
                     ELSE move_left(me)))
          [] key_code = "Right" ->
                 recalculate_scroll_offset(Edited(w,
                     IF jump
                     THEN (IF modifiers.shift THEN select_right_by_words(me)
                           ELSE move_right_by_words(me))
                     ELSE IF modifiers.shift THEN select_right(me)
                     ELSE move_right(me)))
          [] key_code = "Up" ->
                 recalculate_scroll_offset(Edited(w,
                     IF modifiers.shift THEN select_up(me, renderer, tab_width)
                     ELSE move_up(me, renderer, tab_width)))
          [] key_code = "Down" ->
                 recalculate_scroll_offset(Edited(w,
                     IF modifiers.shift THEN select_down(me, renderer, tab_width)
                     ELSE move_down(me, renderer, tab_width)))
          [] key_code = "Home" ->
                 recalculate_scroll_offset(Edited(w,
                     IF jump
                     THEN (IF modifiers.shift
                           THEN select_range(me, start(w.cursor, w.value), 0)
                           ELSE move_to_byte(me, 0))
                     ELSE IF modifiers.shift THEN select_left_by_line(me)
                     ELSE move_left_by_line(me)))
          [] key_code = "End" ->
                 recalculate_scroll_offset(Edited(w,
                     IF jump
                     THEN (IF modifiers.shift
                           THEN select_range(me, start(w.cursor, w.value),
                                             len_bytes(w.value))
                           ELSE move_to_byte(me, len_bytes(w.value)))
                     ELSE IF modifiers.shift THEN select_right_by_line(me, checked)
                     ELSE move_right_by_line(me, checked)))
          [] key_code = "C" /\ command(modifiers) ->
                 IF sel.some THEN copied ELSE w
          [] key_code = "X" /\ command(modifiers) ->
                 IF sel.some
                 THEN recalculate_scroll_offset(
                          Edited(copied, Editor_delete(me)))
                 ELSE w
          [] key_code = "V" ->
                 IF command(modifiers)
                 THEN LET content == pasted_content(w)
                      IN  recalculate_scroll_offset(
                              [Edited(w, Editor_paste(me, content))
                                  EXCEPT !.is_pasting = Pasting(content)])
                 ELSE [w EXCEPT !.is_pasting = NotPasting]
          [] key_code = "A" /\ command(modifiers) ->
                 recalculate_scroll_offset(Edited(w, select_all(me)))
          [] key_code = "Escape" ->
                 recalculate_scroll_offset(
                     [w EXCEPT !.is_pasting = NotPasting,
                               !.keyboard_modifiers = NoModifiers])
          [] OTHER -> w

\* Event::Keyboard(KeyPressed { key_code }): every arm is Captured but Tab.
key_pressed(w, key_code, checked) ==
    IF ~w.is_focused THEN w
    ELSE IF key_code = "Tab" THEN w
    ELSE Captured(key_arm(w, key_code, checked))

\* Event::Keyboard(KeyReleased { key_code })
key_released(w, key_code) ==
    IF ~w.is_focused THEN w
    ELSE IF key_code = "V" THEN Captured([w EXCEPT !.is_pasting = NotPasting])
    ELSE IF key_code \in {"Tab", "Up", "Down"} THEN w
    ELSE Captured(w)

\* Event::Keyboard(ModifiersChanged(modifiers))
modifiers_changed(w, modifiers) ==
    IF w.is_focused THEN [w EXCEPT !.keyboard_modifiers = modifiers] ELSE w

\* The characters typed into the widget: a letter and both line-terminator
\* characters.
WidgetChars == {"a", "lf", "cr"}

WidgetBuffers == UNION {[1..n -> WidgetChars] : n \in 0..MaxLen}

\* The texts another program leaves on the clipboard.
ClipTexts == {<<"a">>, <<"lf">>}

\* The keys pressed and released on the widget.
PressedKeys ==
    {"Enter", "Backspace", "Delete", "Left", "Right", "Home", "End", "V", "A",
     "Escape", "Tab"}

ReleasedKeys == {"V", "Tab", "Escape"}

\* The modifiers held during the events: the command key, or none.
HeldModifiers == {modifiers \in Modifiers : ~modifiers.shift}

\* One event handled by update, from the idle widget: w is the state it
\* leaves.
HandleEvent(op, key_code, text, w) ==
    /\ pc = "idle"
    /\ ~panicked
    /\ Len(w.value) <= MaxLen
    /\ value' = w.value
    /\ cursor' = w.cursor
    /\ panicked' = ~w.ok
    /\ pc' = "handled"
    /\ last' = [op |-> op, pos |-> key_code, text |-> text, value |-> value,
                cursor |-> cursor]
    /\ is_focused' = w.is_focused
    /\ is_pasting' = w.is_pasting
    /\ keyboard_modifiers' = w.keyboard_modifiers
    /\ clipboard' = w.clipboard
    /\ status' = w.status
    /\ UNCHANGED <<renderer, tab_width, chunk_ends, tabs, active_tab, last_tabs>>

ButtonPressed ==
    \E is_clicked \in BOOLEAN, kind \in {"Single", "Double", "Triple"},
       line_num \in 0..len_lines(value), x \in 0..MaxLen :
        /\ ~is_clicked => kind = "Single" /\ line_num = 0 /\ x = 0
        /\ kind = "Triple" => line_num = 0 /\ x = 0
        /\ HandleEvent("button_pressed", <<is_clicked, kind>>, <<>>,
               button_pressed(Widget, is_clicked, kind,
                   IF is_clicked /\ kind # "Triple"
                   THEN index_at_point(renderer, tab_width, value, line_num, x)
                   ELSE NoHit))

CharacterReceived ==
    \E c \in WidgetChars :
        HandleEvent("character_received", "", <<c>>, character_received(Widget, c))

KeyPressed ==
    \E key_code \in PressedKeys, checked \in BOOLEAN :
        /\ checked = FALSE \/ (key_code = "End" /\ is_focused)
        /\ HandleEvent("key_pressed", key_code, pasted_content(Widget),
                       key_pressed(Widget, key_code, checked))

KeyReleased ==
    \E key_code \in ReleasedKeys :
        HandleEvent("key_released", key_code, <<>>, key_released(Widget, key_code))

ModifiersChanged ==
    \E modifiers \in HeldModifiers :
        HandleEvent("modifiers_changed", "", <<>>, modifiers_changed(Widget, modifiers))

\* Another program puts a text on the clipboard.
ClipboardWritten ==
    \E text \in ClipTexts :
        /\ pc = "idle"
        /\ ~panicked
        /\ text # clipboard
        /\ clipboard' = text
        /\ UNCHANGED <<value, cursor, panicked, pc, last, renderer, tab_width,
                       chunk_ends, is_focused, is_pasting, keyboard_modifiers,
                       status, tabs, active_tab, last_tabs>>

\* State::default() or State::focused(), of an empty buffer.
InitWidget ==
    /\ value = <<>>
    /\ cursor = DefaultCursor
    /\ panicked = FALSE
    /\ pc = "idle"
    /\ last = NoLast
    /\ chunk_ends = {}
    /\ renderer = Monospace
    /\ tab_width = TabWidth
    /\ is_focused \in BOOLEAN
    /\ is_pasting = NotPasting
    /\ keyboard_modifiers = NoModifiers
    /\ clipboard \in ClipTexts
    /\ status = "Ignored"
    /\ NoTabs

NextWidget ==
    \/ ButtonPressed \/ CharacterReceived
    \/ KeyPressed \/ KeyReleased \/ ModifiersChanged
    \/ ClipboardWritten
    \/ Return

\* The events of the widget, from its construction.
SpecWidget == InitWidget /\ [][NextWidget]_vars

(***************************************************************************)
(* The tab list (model/mod.rs).  A tab is known by its number; active_tab  *)
(* counts from 0 as TabIndex does.                                         *)
(***************************************************************************)
MaxTabs == 4

\* The tabs there are to open.
TabIds == 1..MaxTabs

TheTabs == [tabs |-> tabs, active_tab |-> active_tab, ok |-> TRUE]

saturating_sub(a, b) == IF a >= b THEN a - b ELSE 0

Tabs_push(t, tab) ==
    [t EXCEPT !.tabs = Append(t.tabs, tab), !.active_tab = Len(t.tabs) + 1 - 1]

Tabs_remove_below_only(t, index) ==
    IF index >= Len(t.tabs) THEN [t EXCEPT !.ok = FALSE]
    ELSE [t EXCEPT !.tabs = remove(t.tabs, index, index + 1),
                   !.active_tab = IF index < t.active_tab
                                  THEN saturating_sub(t.active_tab, 1)
                                  ELSE t.active_tab]

\* Vec::remove aborts on an index that is not in the list.
Tabs_remove(t, index) ==
    IF index >= Len(t.tabs) THEN [t EXCEPT !.ok = FALSE]
    ELSE [t EXCEPT !.tabs = remove(t.tabs, index, index + 1),
                   !.active_tab = IF index <= t.active_tab
                                  THEN saturating_sub(t.active_tab, 1)
                                  ELSE t.active_tab]

Tabs_set_active(t, index) ==
    IF index >= Len(t.tabs) THEN [t EXCEPT !.ok = FALSE]
    ELSE [t EXCEPT !.active_tab = index]

\* Tabs::view: the placeholder for an empty list; otherwise the content of
\* the active tab, expected to be there.
Tabs_view(t) ==
    IF t.tabs = <<>> THEN t
    ELSE IF t.active_tab < Len(t.tabs) THEN t
    ELSE [t EXCEPT !.ok = FALSE]

\* One call on the tab list: t is what it leaves.
Call(op, index, t) ==
    /\ ~panicked
    /\ tabs' = t.tabs
    /\ active_tab' = t.active_tab
    /\ panicked' = ~t.ok
    /\ last_tabs' = [op |-> op, index |-> index, tabs |-> tabs,
                     active_tab |-> active_tab]
    /\ UNCHANGED <<value, cursor, pc, last, renderer, tab_width, chunk_ends,
                   is_focused, is_pasting, keyboard_modifiers, clipboard,
                   status>>

\* A tab that is not open yet is opened.
Push ==
    \E tab \in TabIds :
        /\ \A k \in 1..Len(tabs) : tabs[k] # tab
        /\ Call("push", tab, Tabs_push(TheTabs, tab))

\* The indices a caller may pass: those of the list, and the one past it.
Remove == \E index \in 0..Len(tabs) : Call("remove", index, Tabs_remove(TheTabs, index))

SetActive ==
    \E index \in 0..Len(tabs) : Call("set_active", index, Tabs_set_active(TheTabs, index))

View == Call("view", 0, Tabs_view(TheTabs))

InitTabs ==
    /\ value = <<>>
    /\ cursor = DefaultCursor
    /\ panicked = FALSE
    /\ pc = "idle"
    /\ last = NoLast
    /\ chunk_ends = {}
    /\ renderer = Monospace
    /\ tab_width = TabWidth
    /\ Focused
    /\ NoTabs

NextTabs == Push \/ Remove \/ SetActive \/ View

\* The calls on the tab list, from the empty list.
SpecTabs == InitTabs /\ [][NextTabs]_vars

(***************************************************************************)
(* What the claims speak of.                                               *)
(***************************************************************************)
\* The buffer as its UTF-8 bytes.
Bytes(v) == bytes(v)

\* bs[0..lo) followed by mid and by bs[hi..)
Splice(bs, lo, mid, hi) == SubSeq(bs, 1, lo) \o mid \o SubSeq(bs, hi + 1, Len(bs))

InRange(i, v) == i \in 0..len_bytes(v)

\* The state, the selection and the ends the last operation started from.
PreState == state(last.cursor, last.value)

PreSelection == selection(last.cursor, last.value)

Acted(op) == pc = "handled" /\ last.op = op

\* C1 (clamping): whatever was stored in the cursor (a position past the
\* end, a position the buffer has shrunk under), state(), start() and end()
\* return indices in [0, len_bytes].
C1_Clamping ==
    /\ InRange(state(cursor, value).start, value)
    /\ InRange(state(cursor, value).end, value)
    /\ InRange(start(cursor, value), value)
    /\ InRange(end(cursor, value), value)

\* move_to_byte was given a position past the end of the buffer, and stored it.
C1_Witness ==
    /\ Acted("move_to_byte")
    /\ last.pos > len_bytes(value)
    /\ cursor.state.start > len_bytes(value)
    /\ state(cursor, value) = Index(len_bytes(value))

\* C2 (selection normalization): selection() is None or (low, high) with
\* low <= high, and when the two clamped ends are equal state() is Index(low)
\* and selection() is None, so a zero-width selection is never seen.
C2_SelectionNormalized ==
    LET sel == selection(cursor, value)
        st  == state(cursor, value)
        s   == Min(cursor.state.start, len_bytes(value))
        e   == Min(cursor.state.end, len_bytes(value))
    IN  /\ sel.some => /\ sel.low <= sel.high
                       /\ sel.low # sel.high
                       /\ {sel.low, sel.high} = {s, e}
        /\ s = e => st = Index(s) /\ ~sel.some
        /\ s # e => st = Selection(s, e) /\ sel.some

\* A backward selection (end before start) is read in order.
C2_Witness ==
    /\ cursor.state.kind = "Selection"
    /\ cursor.state.end < cursor.state.start
    /\ selection(cursor, value) =
           [some |-> TRUE, low |-> cursor.state.end, high |-> cursor.state.start]

\* A stored selection both ends of which lie at or past the end of the buffer
\* is read as an Index.
C2_CollapsedReached ==
    /\ cursor.state.kind = "Selection"
    /\ cursor.state.start # cursor.state.end
    /\ state(cursor, value).kind = "Index"

\* The grapheme boundary before / after byte index i of v.
BoundaryBefore(v, i) == SetMax({b \in GraphemeBoundaries(v) : b < i})

BoundaryAfter(v, i) == SetMin({b \in GraphemeBoundaries(v) : b > i})

\* C3 (backspace, no selection, cursor at c > 0): exactly the bytes of the
\* grapheme cluster before the cursor, [previous_grapheme(c), c), are removed
\* and the cursor is left at Index(previous_grapheme(c)).
C3_BackspaceRemovesGrapheme ==
    LET c == PreState.start
        g == BoundaryBefore(last.value, c)
    IN  (Acted("backspace") /\ ~PreSelection.some /\ c > 0) =>
            /\ ~panicked
            /\ Bytes(value) = Splice(Bytes(last.value), g, <<>>, c)
            /\ state(cursor, value) = Index(g)

\* C4 (delete, no selection, cursor at c < len): exactly the bytes of the
\* grapheme cluster after the cursor, [c, next_grapheme(c)), are removed and
\* the cursor is left at Index(c).
C4_DeleteRemovesGrapheme ==
    LET c == PreState.start
        g == BoundaryAfter(last.value, c)
    IN  (Acted("delete") /\ ~PreSelection.some /\ c < len_bytes(last.value)) =>
            /\ ~panicked
            /\ Bytes(value) = Splice(Bytes(last.value), c, <<>>, g)
            /\ state(cursor, value) = Index(c)

\* C5 (backspace / delete with a selection (low, high), either direction):
\* exactly the bytes [low, high) are removed and the cursor is left at
\* Index(low).
C5_SelectionRemoved ==
    ((Acted("backspace") \/ Acted("delete")) /\ PreSelection.some) =>
        /\ ~panicked
        /\ Bytes(value) =
               Splice(Bytes(last.value), PreSelection.low, <<>>, PreSelection.high)
        /\ state(cursor, value) = Index(PreSelection.low)

\* The byte range an insertion replaces: the selection, or the cursor.
ReplacedLow == IF PreSelection.some THEN PreSelection.low ELSE PreState.start

ReplacedHigh == IF PreSelection.some THEN PreSelection.high ELSE PreState.start

\* C6 (paste(text)): the buffer becomes old[0..p] + text + old[q..], with
\* (p, q) the selection or (c, c) for a cursor at c, and the cursor ends at
\* Index(p + byte length of text).
C6_Paste ==
    Acted("paste") =>
        /\ ~panicked
        /\ Bytes(value) =
               Splice(Bytes(last.value), ReplacedLow, Bytes(last.text), ReplacedHigh)
        /\ state(cursor, value) = Index(ReplacedLow + len_bytes(last.text))

\* C7 (insert(ch)): the buffer becomes old[0..p] + ch + old[q..], and the
\* cursor ends at the Index one grapheme after p in the new buffer.
C7_Insert ==
    Acted("insert") =>
        /\ ~panicked
        /\ Bytes(value) =
               Splice(Bytes(last.value), ReplacedLow, Bytes(last.text), ReplacedHigh)
        /\ state(cursor, value) = Index(BoundaryAfter(value, ReplacedLow))

\* Byte index i lies on the last line of v (the line after the last break).
OnLastLine(v, i) == byte_to_line(v, i) + 1 = len_lines(v)

\* C8 (end of line on the last line): with the cursor on the last line,
\* move_right_by_line and select_right_by_line put the moving end at
\* len_bytes.
C8_EndOfLastLine ==
    ((Acted("move_right_by_line") \/ Acted("select_right_by_line"))
        /\ OnLastLine(last.value, PreState.end)) =>
            /\ ~panicked
            /\ cursor.state.end = len_bytes(value)

\* The start of the line that holds byte i, and the end of its terminator
\* (0 when the line has none).
LineStart(v, i) == SetMax({0} \cup {q \in BreakEnds(v) : q <= i})

TerminatorEnd(v, i) ==
    IF \E q \in BreakEnds(v) : q > i THEN SetMin({q \in BreakEnds(v) : q > i}) ELSE 0

\* The length of the terminator "\n" (1) or "\r\n" (2) that ends at byte n,
\* 0 when neither ends there.
TerminatorLen(v, n) ==
    IF n >= 2 /\ byte(v, n - 1) = "lf" /\ byte(v, n - 2) = "cr" THEN 2
    ELSE IF n >= 1 /\ byte(v, n - 1) = "lf" THEN 1
    ELSE 0

\* C9 (end and start of a terminated line): on a line that ends with "\n" or
\* "\r\n", move_right_by_line and select_right_by_line put the moving end
\* right before the terminator (next line start - 1, or - 2 for "\r\n"), and
\* move_left_by_line puts the cursor at the first byte of the line.
C9_TerminatedLine ==
    LET v == last.value
        n == TerminatorEnd(v, PreState.end)
        t == TerminatorLen(v, n)
        m == TerminatorEnd(v, PreState.start)
    IN  /\ ((Acted("move_right_by_line") \/ Acted("select_right_by_line")) /\ t > 0) =>
               /\ ~panicked
               /\ cursor.state.end = n - t
               /\ \A i \in LineStart(v, PreState.end)..(n - t - 1) :
                      byte(v, i) \notin {"lf", "cr"}
        /\ (Acted("move_left_by_line") /\ TerminatorLen(v, m) > 0) =>
               /\ ~panicked
               /\ cursor.state = Index(LineStart(v, PreState.start))

\* The cursor was inside a line ended by "\r\n" and moved to its end.
C9_Witness ==
    /\ Acted("move_right_by_line")
    /\ TerminatorLen(last.value, TerminatorEnd(last.value, PreState.end)) = 2
    /\ PreState.end < cursor.state.end
    /\ cursor.state.end = TerminatorEnd(last.value, PreState.end) - 2
    /\ ~panicked

NavigationOps ==
    {"move_left", "move_right", "move_left_by_words", "move_right_by_words",
     "move_left_by_line", "move_right_by_line",
     "select_left", "select_right", "select_left_by_words", "select_right_by_words",
     "select_left_by_line", "select_right_by_line"}

\* C10 (totality of navigation): every move_* and select_* operation completes
\* without aborting, on every buffer and from every cursor state, and leaves
\* the cursor in [0, len_bytes].
C10_NavigationTotal ==
    (pc = "handled" /\ last.op \in NavigationOps) =>
        /\ ~panicked
        /\ InRange(state(cursor, value).start, value)
        /\ InRange(state(cursor, value).end, value)

\* The end of the line that holds byte i: the offset right before its
\* terminator, len_bytes on the last line.
LineEnd(v, i) ==
    LET n == TerminatorEnd(v, i)
    IN  IF n = 0 THEN len_bytes(v)
        ELSE IF TerminatorLen(v, n) = 2 THEN n - 2
        ELSE n - 1

WordOps ==
    {"move_left_by_words", "move_right_by_words",
     "select_left_by_words", "select_right_by_words"}

\* The index a word operation starts from: start() for move_left_by_words,
\* the moving end for the others.
WordOrigin == IF last.op = "move_left_by_words" THEN PreState.start ELSE PreState.end

\* C11 (a word move never crosses a line terminator): next_end_of_word(i) and
\* previous_start_of_word(i), as the word operations apply them, return an
\* index on the line of i, within [start_of_line(i), end_of_line(i)].
C11_WordMoveStaysOnLine ==
    (pc = "handled" /\ last.op \in WordOps) =>
        /\ LineStart(last.value, WordOrigin) <= cursor.state.end
        /\ cursor.state.end <= LineEnd(last.value, WordOrigin)

\* C12 (word-move termination): each move_right_by_words from an index
\* i < len_bytes completes and yields an index strictly greater than i (and at
\* most len_bytes), so that repeating it reaches len_bytes.
C12_WordMoveProgress ==
    (Acted("move_right_by_words") /\ PreState.end < len_bytes(last.value)) =>
        /\ ~panicked
        /\ cursor.state.kind = "Index"
        /\ PreState.end < cursor.state.end
        /\ cursor.state.end <= len_bytes(value)

RECURSIVE WalkSteps(_, _)
\* The number of move_right_by_words applications made from index i until the
\* cursor is at len_bytes (or an application aborts or does not advance).
WalkSteps(v, i) ==
    LET j == next_end_of_word(v, i)
    IN  IF i >= len_bytes(v) THEN 0
        ELSE IF j = PANIC \/ j <= i THEN 1
        ELSE 1 + WalkSteps(v, j)

\* The number of words of the buffer: its word segments that are not blank.
NumWords(v) == Cardinality(Words(v))

ClusterEnd(v, k) ==
    IF v[k + 1] = "cr" /\ k + 2 <= Len(v) /\ v[k + 2] = "lf" THEN k + 2
    ELSE IF v[k + 1] \in {"cr", "lf", "tab"} THEN k + 1
    ELSE SetMax({e \in (k + 1)..Len(v) : \A j \in (k + 2)..e : v[j] = "cm"})

RECURSIVE ClusterStartsFrom(_, _)
\* The char offsets at which the clusters of v start, from offset k on.
ClusterStartsFrom(v, k) ==
    IF k >= Len(v) THEN {} ELSE {k} \cup ClusterStartsFrom(v, ClusterEnd(v, k))

ClusterStarts(v) == ClusterStartsFrom(v, 0)

\* C14 (grapheme stepping): from the start of a cluster next_grapheme returns
\* the end of that cluster, whatever its number of bytes and characters, and
\* previous_grapheme of that end returns the start; next_grapheme(len) = len
\* and previous_grapheme(0) = 0, on the empty buffer too; move_right and
\* move_left from a plain index step that way.
C14_GraphemeStepping ==
    /\ \A k \in ClusterStarts(value) :
           /\ next_grapheme(value, char_to_byte(value, k)) =
                  char_to_byte(value, ClusterEnd(value, k))
           /\ previous_grapheme(value, char_to_byte(value, ClusterEnd(value, k))) =
                  char_to_byte(value, k)
    /\ next_grapheme(value, len_bytes(value)) = len_bytes(value)
    /\ previous_grapheme(value, 0) = 0
    /\ \A k \in ClusterStarts(last.value) :
           /\ (Acted("move_right") /\ PreState = Index(char_to_byte(last.value, k))) =>
                  cursor.state = Index(char_to_byte(last.value, ClusterEnd(last.value, k)))
           /\ (Acted("move_left")
                  /\ PreState = Index(char_to_byte(last.value, ClusterEnd(last.value, k)))) =>
                  cursor.state = Index(char_to_byte(last.value, k))

\* move_right crossed a cluster of two characters and three bytes in one step.
C14_Witness ==
    /\ Acted("move_right")
    /\ ~panicked
    /\ PreState.kind = "Index"
    /\ \E k \in ClusterStarts(last.value) :
           /\ PreState.start = char_to_byte(last.value, k)
           /\ ClusterEnd(last.value, k) = k + 2
           /\ last.value[k + 2] = "cm"
           /\ cursor.state = Index(PreState.start + 3)

\* previous_grapheme(next_grapheme(i)) = i when next_grapheme(i) < len, and
\* next_grapheme(previous_grapheme(i)) = i when previous_grapheme(i) > 0.
RoundTrip(v, i) ==
    /\ next_grapheme(v, i) < len_bytes(v) =>
           previous_grapheme(v, next_grapheme(v, i)) = i
    /\ previous_grapheme(v, i) > 0 =>
           next_grapheme(v, previous_grapheme(v, i)) = i

\* C15 as stated (grapheme round trip): for every valid index i of the
\* buffer, an index in [0, len_bytes] on a character boundary, the round trip
\* returns to i.
C15_RoundTripEveryIndex ==
    \A i \in 0..len_bytes(value) : is_char_boundary(value, i) => RoundTrip(value, i)

\* C15, amended: the round trip returns to i for every index i that is a
\* grapheme cluster boundary of the buffer (an index inside a cluster, such
\* as the one between "\r" and "\n", is not returned to).
C15_RoundTripBoundaries ==
    \A i \in GraphemeBoundaries(value) : RoundTrip(value, i)

\* move_left went back over a cluster of several characters that does not end
\* the buffer, to the index from which next_grapheme returns to where it was.
C15_Witness ==
    /\ Acted("move_left")
    /\ ~panicked
    /\ PreState.kind = "Index"
    /\ PreState.start < len_bytes(value)
    /\ cursor.state = Index(previous_grapheme(value, PreState.start))
    /\ cursor.state.start + 3 <= PreState.start
    /\ next_grapheme(value, cursor.state.start) = PreState.start

\* C16 (move_left / move_right): from a non-empty selection, forward or
\* backward, move_left yields Index(low) and move_right Index(high), with no
\* further movement; from a plain Index(i), move_left yields
\* Index(previous_grapheme(i)), Index(0) at i = 0, and move_right yields
\* Index(next_grapheme(i)); the operation aborts only where that call does.
C16_MoveLeftRight ==
    LET i    == PreState.start
        prev == previous_grapheme(last.value, i)
        next == next_grapheme(last.value, i)
    IN  /\ (Acted("move_left") /\ PreSelection.some) =>
               ~panicked /\ cursor.state = Index(PreSelection.low)
        /\ (Acted("move_right") /\ PreSelection.some) =>
               ~panicked /\ cursor.state = Index(PreSelection.high)
        /\ (Acted("move_left") /\ ~PreSelection.some) =>
               IF i = 0 THEN ~panicked /\ cursor.state = Index(0)
               ELSE IF prev = PANIC THEN panicked
               ELSE ~panicked /\ cursor.state = Index(prev)
        /\ (Acted("move_right") /\ ~PreSelection.some) =>
               IF next = PANIC THEN panicked
               ELSE ~panicked /\ cursor.state = Index(next)

\* move_left collapsed a backward selection, whose low end is not the start
\* of the buffer, to that low end.
C16_Witness ==
    /\ Acted("move_left")
    /\ PreState.kind = "Selection"
    /\ 0 < PreState.end
    /\ PreState.end < PreState.start
    /\ cursor.state = Index(PreState.end)

SelectOps ==
    {"select_left", "select_right", "select_left_by_words", "select_right_by_words",
     "select_left_by_line", "select_right_by_line", "select_up", "select_down"}

\* C17 (selection anchoring): every select_* operation leaves the anchor where
\* it was: from Index(i) the anchor is i, from Selection{start, end} it stays
\* start; only the moving end changes, the buffer does not, and when the
\* moving end comes to equal the anchor the state is Index(anchor).
C17_SelectionAnchored ==
    (pc = "handled" /\ last.op \in SelectOps) =>
        /\ value = last.value
        /\ start(cursor, value) = PreState.start
        /\ state(cursor, value).start = PreState.start
        /\ end(cursor, value) = PreState.start => state(cursor, value) = Index(PreState.start)
        /\ cursor.state.kind = "Selection" /\ cursor.state # last.cursor.state =>
               cursor.state.start # cursor.state.end

\* select_up moved the end of a selection to the line above and kept its
\* anchor.
C17_Witness ==
    /\ Acted("select_up")
    /\ ~panicked
    /\ PreState.kind = "Selection"
    /\ cursor.state.kind = "Selection"
    /\ cursor.state.start = PreState.start
    /\ cursor.state.end < PreState.end
    /\ byte_to_line(value, cursor.state.end) + 1 = byte_to_line(value, PreState.end)

\* select_left brought the end of a selection back to its anchor.
C17_CollapseReached ==
    /\ Acted("select_left")
    /\ PreState.kind = "Selection"
    /\ cursor.state = Index(PreState.start)

\* C18 (select_all): on a buffer of n > 0 bytes select_all yields
\* Selection{start: 0, end: n}, whatever the cursor was before; on the empty
\* buffer it yields Index(0).
C18_SelectAll ==
    Acted("select_all") =>
        /\ ~panicked
        /\ value = last.value
        /\ len_bytes(value) > 0 =>
               /\ cursor.state = Selection(0, len_bytes(value))
               /\ state(cursor, value) = Selection(0, len_bytes(value))
        /\ len_bytes(value) = 0 =>
               /\ cursor.state = Index(0)
               /\ state(cursor, value) = Index(0)

\* select_all replaced a backward selection that did not reach the start of
\* the buffer.
C18_Witness ==
    /\ Acted("select_all")
    /\ PreState.kind = "Selection"
    /\ 0 < PreState.end
    /\ PreState.end < PreState.start
    /\ cursor.state = Selection(0, len_bytes(value))

\* select_all on the empty buffer.
C18_EmptyReached ==
    /\ Acted("select_all")
    /\ value = <<>>
    /\ cursor.state = Index(0)

\* The operations that are to forget the remembered offset: the horizontal
\* moves, the selections other than select_up / select_down, insert and paste.
HintClearingOps ==
    {"move_to_byte", "move_left", "move_right",
     "move_left_by_words", "move_right_by_words",
     "move_left_by_line", "move_right_by_line",
     "select_left", "select_right", "select_left_by_words", "select_right_by_words",
     "select_left_by_line", "select_right_by_line",
     "select_all", "select_range", "select_word",
     "insert", "paste"}

\* C19 (hint invalidation): after any horizontal move, any selection other
\* than select_up / select_down, and any insert or paste (move_right_by_bytes)
\* that completed, offset_x_hint is None, whatever hint a vertical move had
\* left before.
C19_HintCleared ==
    (pc = "handled" /\ last.op \in HintClearingOps /\ ~panicked) =>
        cursor.offset_x_hint = None

\* A hint left by a vertical move was forgotten by a paste.
C19_Witness ==
    /\ Acted("paste")
    /\ ~panicked
    /\ last.cursor.offset_x_hint # None
    /\ last.cursor.offset_x_hint > 0
    /\ cursor.offset_x_hint = None

\* The cursor after the move_up that follows the move_down just made.
BackUp == move_up(Me, renderer, tab_width)

\* C20 (vertical stability): on a multi-line buffer, from Index(i) with no
\* hint, on whichever line i is, move_down followed by move_up completes and
\* ends at a position whose offset_x_of_index is that of i.
C20_VerticalStability ==
    (Acted("move_down") /\ last.cursor.offset_x_hint = None
        /\ PreState.kind = "Index" /\ len_lines(last.value) > 1) =>
            /\ ~panicked
            /\ BackUp.ok
            /\ offset_x_of_index(end(BackUp.cursor, value), value, tab_width) =
                   offset_x_of_index(PreState.start, last.value, tab_width)

\* The column of byte i of v: the width of its line up to i, in cells.
ColumnOf(v, i) == offset_x_of_index(i, v, tab_width)

\* The positions of the line that holds byte s, up to the end of its content.
ContentPositions(v, s) ==
    {b \in LineStart(v, s)..LineEnd(v, s) : is_char_boundary(v, b)}

\* Position t lies in the content of the line that holds byte s, at column c
\* or at the end of the content when the line is shorter (as far as a
\* position of the line has that column at all).
AtColumn(v, s, c, t) ==
    LET w == Min(c, ColumnOf(v, LineEnd(v, s)))
    IN  /\ t \in ContentPositions(v, s)
        /\ (\E b \in ContentPositions(v, s) : ColumnOf(v, b) = w) => ColumnOf(v, t) = w

\* C21 (vertical move target): drawn by the monospace provider, from Index(i)
\* with no hint at column c of a line that is not the last, move_down ends as
\* an Index in the content of the following line, at column c or at the end
\* of that content when it is shorter; move_up from a line that is not the
\* first does so on the preceding line.
C21_VerticalTarget ==
    /\ (Acted("move_down") /\ renderer = Monospace /\ PreState.kind = "Index"
            /\ last.cursor.offset_x_hint = None
            /\ ~OnLastLine(last.value, PreState.start)) =>
           /\ ~panicked
           /\ state(cursor, value).kind = "Index"
           /\ AtColumn(value, TerminatorEnd(value, PreState.start),
                       ColumnOf(value, PreState.start), state(cursor, value).start)
    /\ (Acted("move_up") /\ renderer = Monospace /\ PreState.kind = "Index"
            /\ last.cursor.offset_x_hint = None
            /\ byte_to_line(last.value, PreState.start) > 0) =>
           /\ ~panicked
           /\ state(cursor, value).kind = "Index"
           /\ AtColumn(value, LineStart(value, PreState.start) - 1,
                       ColumnOf(value, PreState.start), state(cursor, value).start)

\* Line n of v holds a tab.
HasTab(v, n) == \E k \in 1..Len(line(v, n)) : line(v, n)[k] = "tab"

\* hit_byte_index of the monospace provider on the line of v that holds byte
\* i, at the column of i.
HitAtColumnOf(v, i) ==
    hit_byte_index(Monospace, line(v, byte_to_line(v, i)), tab_width, ColumnOf(v, i))

\* C22 (tab round-trip): for every line of the buffer that holds a tab and
\* every byte index i on a character boundary of it, hit_byte_index of the
\* monospace provider at x = offset_x_of_index(i) returns a byte index whose
\* offset_x_of_index is that of i.
C22_TabRoundTrip ==
    \A i \in 0..len_bytes(value) :
        (is_char_boundary(value, i) /\ HasTab(value, byte_to_line(value, i))) =>
            /\ HitAtColumnOf(value, i) \notin {NoHit, PANIC}
            /\ ColumnOf(value, LineStart(value, i) + HitAtColumnOf(value, i))
                   = ColumnOf(value, i)

\* The width of the text with every tab drawn as tab_width spaces.
ExpandedWidth(text) == measure_width(replace_tab(text, tab_width))

\* The position move_down starts from: the high boundary of the cursor.
MoveDownFrom == Max(PreState.start, PreState.end)

\* C23 (tab-expanded width): in the buffer move_down has worked on, the
\* width of every range is the measured width of its text with every tab
\* replaced by tab_width spaces, wherever the tabs stand; and this is the
\* hint a completed move_down stores: the width of the last line when it starts on the last line, the
\* width of the line up to the cursor when it starts elsewhere with no hint.
C23_TabExpandedWidth ==
    /\ Acted("move_down") =>
           \A from \in 0..len_bytes(value), to \in 0..len_bytes(value) :
               (from <= to /\ is_char_boundary(value, from)
                    /\ is_char_boundary(value, to)) =>
                   width_of_range(from, to, value, tab_width)
                       = ExpandedWidth(byte_slice(value, from, to))
    /\ (Acted("move_down") /\ ~panicked /\ OnLastLine(value, MoveDownFrom)) =>
           cursor.offset_x_hint
               = ExpandedWidth(byte_slice(value, LineStart(value, len_bytes(value)),
                                          len_bytes(value)))
    /\ (Acted("move_down") /\ ~panicked /\ ~OnLastLine(value, MoveDownFrom)
            /\ last.cursor.offset_x_hint = None) =>
           cursor.offset_x_hint
               = ExpandedWidth(byte_slice(value, LineStart(value, MoveDownFrom),
                                          MoveDownFrom))

C23_Witness ==
    /\ Acted("move_down")
    /\ ~panicked
    /\ value = <<"tab", "tab", "a">>
    /\ tab_width = 3
    /\ cursor.offset_x_hint = 7

\* Every "\r" of v is followed by "\n": the line terminators of v are "\n"
\* and "\r\n".
ProperTerminators(v) ==
    \A k \in 1..Len(v) : v[k] = "cr" => (k < Len(v) /\ v[k + 1] = "lf")

\* Byte index i of v lies between the "\r" and the "\n" of a terminator.
SplitsCrLf(v, i) ==
    /\ 0 < i
    /\ i < len_bytes(v)
    /\ byte(v, i - 1) = "cr"
    /\ byte(v, i) = "lf"

CursorSplitsCrLf(c, v) == SplitsCrLf(v, start(c, v)) \/ SplitsCrLf(v, end(c, v))

\* C24 (CRLF never split): an operation that completes on a buffer whose
\* terminators are "\n" and "\r\n", before it and after it, from a cursor
\* with no end between a "\r" and its "\n", leaves no end of the cursor
\* between a "\r" and its "\n".
C24_CrLfNeverSplit ==
    (pc = "handled" /\ ~panicked
        /\ ProperTerminators(last.value) /\ ProperTerminators(value)
        /\ ~CursorSplitsCrLf(last.cursor, last.value)) =>
            ~CursorSplitsCrLf(cursor, value)

\* C25 (UTF-8 boundary invariant): from Index(0), whatever is done, the
\* indices the cursor exposes (those of state(), start(), end() and
\* selection()) lie on character boundaries of the buffer.
C25_Utf8Boundaries ==
    ~panicked =>
        /\ is_char_boundary(value, state(cursor, value).start)
        /\ is_char_boundary(value, state(cursor, value).end)
        /\ is_char_boundary(value, start(cursor, value))
        /\ is_char_boundary(value, end(cursor, value))
        /\ is_char_boundary(value, selection(cursor, value).low)
        /\ is_char_boundary(value, selection(cursor, value).high)

VerticalOps == {"move_up", "move_down", "select_up", "select_down"}

\* The position the last vertical operation looks above or below of.
VerticalFrom ==
    CASE last.op = "move_up"   -> Min(PreState.start, PreState.end)
      [] last.op = "move_down" -> Max(PreState.start, PreState.end)
      [] OTHER                 -> PreState.end

\* The line the last vertical operation hit-tests: the line above or below
\* VerticalFrom when there is one that holds more than a terminator and the
\* operation does not return before; <<>> when no hit test is made.
HitTestedLine ==
    LET v == last.value
        n == byte_to_line(v, VerticalFrom)
        t == IF last.op \in {"move_up", "select_up"} THEN n - 1 ELSE n + 1
    IN  IF \/ t < 0
           \/ t >= len_lines(v)
           \/ last.op = "move_up" /\ PreState.kind = "Index" /\ PreState.start = 0
           \/ last.op = "select_up" /\ PreState.end = 0
           \/ last.op = "select_down" /\ PreState.end >= len_bytes(v)
           \/ StartsWithTerminator(line(v, t))
        THEN <<>>
        ELSE line(v, t)

\* C26 (hit-test failure is recoverable): when the provider finds no position
\* in the line a vertical operation hit-tests, the operation completes and
\* leaves the state of the cursor as it was.
C26_HitTestFailureRecoverable ==
    (pc = "handled" /\ last.op \in VerticalOps
        /\ HitTestedLine # <<>>
        /\ hit_test(renderer, display(HitTestedLine, tab_width), 0) = NoHit) =>
            /\ ~panicked
            /\ cursor.state = last.cursor.state

\* Only whitespace lies in the bytes [from, to) of v.
OnlyWhitespace(v, from, to) == \A i \in from..(to - 1) : byte(v, i) \in Whitespace

\* C27 (whitespace-only remainder stays on the line): from an index before
\* the end of its line with only whitespace up to that end, the word moves to
\* the right end within the line's boundary, at its end or right after its
\* terminator; from an index after the start of its line with only
\* whitespace since that start, the word moves to the left end at the start
\* of the line.
C27_WhitespaceStaysOnLine ==
    /\ (pc = "handled" /\ last.op \in {"move_right_by_words", "select_right_by_words"}
            /\ WordOrigin < LineEnd(last.value, WordOrigin)
            /\ OnlyWhitespace(last.value, WordOrigin, LineEnd(last.value, WordOrigin))) =>
           /\ ~panicked
           /\ cursor.state.end >= LineEnd(last.value, WordOrigin)
           /\ cursor.state.end <= line_to_byte(last.value,
                                              byte_to_line(last.value, WordOrigin) + 1)
    /\ (pc = "handled" /\ last.op \in {"move_left_by_words", "select_left_by_words"}
            /\ LineStart(last.value, WordOrigin) < WordOrigin
            /\ OnlyWhitespace(last.value, LineStart(last.value, WordOrigin), WordOrigin)) =>
           /\ ~panicked
           /\ cursor.state.end = LineStart(last.value, WordOrigin)

\* The lines of the buffer the pointer can be on.
LineNums == 0..(len_lines(value) - 1)

\* What hit_byte_index returns on line n of the buffer for the answer of the
\* provider.
HitByteIndexOn(n) == hit_byte_index(renderer, line(value, n), tab_width, 0)

\* The provider answers a grapheme boundary of the text line n is drawn as.
AnswersBoundaryOf(n) ==
    /\ renderer.kind = "answers"
    /\ renderer.hit >= 0
    /\ renderer.hit <= NumGraphemes(display(line(value, n), tab_width))

\* The click just made hit-tested line n.
ClickHitTested(n) ==
    /\ Acted("click")
    /\ last.pos = <<n, 0>>
    /\ n \in LineNums
    /\ line_to_byte(value, n) < len_bytes(value)
    /\ \E k \in 1..Len(line(value, n)) : line(value, n)[k] \notin Whitespace

\* C28 (hit_byte_index is total): on every line of the buffer, for a provider
\* that answers a grapheme boundary k of the drawn text, hit_byte_index
\* returns a byte offset within the line and never aborts, and the click that
\* hit-tests the line completes; for a provider that finds no position it
\* returns None.
C28_HitByteIndexTotal ==
    \A n \in LineNums :
        /\ AnswersBoundaryOf(n) =>
               /\ HitByteIndexOn(n) \notin {NoHit, PANIC}
               /\ HitByteIndexOn(n) \in 0..len_bytes(line(value, n))
               /\ ClickHitTested(n) => ~panicked
        /\ renderer = Answers(NoHit) => HitByteIndexOn(n) = NoHit

\* The byte offset, in the text line l is drawn as, of byte b of l.
ExpandedOffset(l, b) == len_bytes(display(byte_slice(l, 0, b), tab_width))

\* The bytes of l that hold a tab.
TabsOf(l) == {b \in 0..(len_bytes(l) - 1) : byte(l, b) = "tab"}

\* The byte offset, in the drawn text, of the boundary the provider answers.
HitOffset(l) == BoundaryByte(display(l, tab_width), renderer.hit)

\* What the hit at the drawn offset hit stands for in line l: inside the span
\* of a tab, the byte before the tab when the hit is no farther from the
\* start of the span than from its end and the byte after the tab
\* otherwise; elsewhere, the hit less tab_width - 1 for every tab before it.
UnexpandedHit(l, hit) ==
    LET inside == {b \in TabsOf(l) : /\ ExpandedOffset(l, b) < hit
                                     /\ hit < ExpandedOffset(l, b) + tab_width}
        before == {b \in TabsOf(l) : ExpandedOffset(l, b) + tab_width <= hit}
        t      == CHOOSE b \in inside : TRUE
    IN  IF inside # {}
        THEN IF hit - ExpandedOffset(l, t) <= tab_width - (hit - ExpandedOffset(l, t))
             THEN t
             ELSE t + 1
        ELSE hit - (tab_width - 1) * Cardinality(before)

\* C29 (mid-tab hit rounding): on every line of the buffer, for a provider
\* that answers a grapheme boundary of the drawn text, hit_byte_index returns
\* the byte before or after the tab the hit lies in, whichever is closer and
\* the one before on a tie, and for a hit outside every tab the hit less
\* tab_width - 1 for each tab before it.
C29_MidTabRounding ==
    \A n \in LineNums :
        AnswersBoundaryOf(n) =>
            HitByteIndexOn(n) = UnexpandedHit(line(value, n), HitOffset(line(value, n)))

\* What find_index_above returns for the low boundary of the selection the
\* last operation started from, and find_index_below for its high boundary.
AboveLow ==
    find_index_above(PreSelection.low, last.cursor.offset_x_hint, last.value,
                     renderer, tab_width)

BelowHigh ==
    find_index_below(PreSelection.high, last.cursor.offset_x_hint, last.value,
                     renderer, tab_width)

\* C30 (vertical moves from a selection): from a non-empty selection, forward
\* or backward, move_up ends as the plain Index find_index_above gives for
\* the low boundary, on the line above that boundary (at 0 from the first
\* line), and move_down as the plain Index find_index_below gives for the
\* high boundary, on the line below that boundary (at len_bytes from the last
\* line); the operation aborts only where that search does.
C30_VerticalFromSelection ==
    /\ (Acted("move_up") /\ PreSelection.some) =>
           IF AboveLow.index = PANIC THEN panicked
           ELSE /\ ~panicked
                /\ cursor.state = Index(AboveLow.index)
                /\ cursor.offset_x_hint = AboveLow.offset_x
                /\ IF byte_to_line(value, PreSelection.low) = 0
                   THEN cursor.state.end = 0
                   ELSE byte_to_line(value, cursor.state.end)
                            = byte_to_line(value, PreSelection.low) - 1
    /\ (Acted("move_down") /\ PreSelection.some) =>
           IF BelowHigh.index = PANIC THEN panicked
           ELSE /\ ~panicked
                /\ cursor.state = Index(BelowHigh.index)
                /\ cursor.offset_x_hint = BelowHigh.offset_x
                /\ IF OnLastLine(value, PreSelection.high)
                   THEN cursor.state.end = len_bytes(value)
                   ELSE byte_to_line(value, cursor.state.end)
                            = byte_to_line(value, PreSelection.high) + 1

\* move_down has collapsed a backward selection that spans two lines, neither
\* the last, to an Index on the line below its high boundary.
C30_Witness ==
    /\ Acted("move_down")
    /\ ~panicked
    /\ PreState.kind = "Selection"
    /\ PreState.end < PreState.start
    /\ byte_to_line(value, PreState.end) < byte_to_line(value, PreState.start)
    /\ ~OnLastLine(value, PreState.start)
    /\ cursor.state.kind = "Index"
    /\ byte_to_line(value, cursor.state.end) = byte_to_line(value, PreState.start) + 1

\* move_up has collapsed a forward selection that starts after the first line
\* to an Index on the line above its low boundary.
C30_UpReached ==
    /\ Acted("move_up")
    /\ ~panicked
    /\ PreState.kind = "Selection"
    /\ PreState.start < PreState.end
    /\ byte_to_line(value, PreState.start) > 0
    /\ cursor.state.kind = "Index"
    /\ byte_to_line(value, cursor.state.end) = byte_to_line(value, PreState.start) - 1

\* The position move_up starts from: the low boundary of the cursor.
MoveUpFrom == Min(PreState.start, PreState.end)

\* C31 (vertical clamping at the edges): move_up from anywhere on the first
\* line completes at Index(0) with the remembered offset 0, and move_down
\* from anywhere on the last line completes at Index(len_bytes) with the
\* offset of the end of the text remembered; the same move made again from
\* there stays at that index.
C31_VerticalClamping ==
    /\ (Acted("move_up") /\ byte_to_line(last.value, MoveUpFrom) = 0) =>
           /\ ~panicked
           /\ cursor.state = Index(0)
           /\ cursor.offset_x_hint = 0
           /\ move_up(Me, renderer, tab_width).cursor.state = Index(0)
    /\ (Acted("move_down") /\ OnLastLine(last.value, MoveDownFrom)) =>
           /\ ~panicked
           /\ cursor.state = Index(len_bytes(value))
           /\ cursor.offset_x_hint = offset_x_of_index(len_bytes(value), value, tab_width)
           /\ move_down(Me, renderer, tab_width).cursor.state = Index(len_bytes(value))

\* C32 (hint set by every vertical move): after a move_up or a move_down
\* that completes, from whatever cursor, offset_x_hint holds an offset.
C32_HintSetByVerticalMove ==
    ((Acted("move_up") \/ Acted("move_down")) /\ ~panicked) =>
        cursor.offset_x_hint # None

\* width_of_slice of the slice held in one chunk.
WidthUnsplit(slice) ==
    IF slice = <<>> THEN 0
    ELSE chunk_loop(slice, <<>>, 0, tab_width, measure_width(<<"sp">>))

\* C33 (chunk independence of the width): in the buffer move_down has worked
\* on, however the rope is split into chunks, the width of every range is the
\* width of the same text held in one chunk, the cells of its text other
\* than tabs plus tab_width cells for every tab; and a move_down that starts
\* on the last line remembers that width of the last line.
C33_ChunkIndependence ==
    /\ Acted("move_down") =>
           \A from \in 0..len_bytes(value), to \in 0..len_bytes(value) :
               (from <= to /\ is_char_boundary(value, from)
                    /\ is_char_boundary(value, to)) =>
                   /\ width_of_range(from, to, value, tab_width)
                          = WidthUnsplit(byte_slice(value, from, to))
                   /\ width_of_range(from, to, value, tab_width)
                          = ExpandedWidth(byte_slice(value, from, to))
    /\ (Acted("move_down") /\ ~panicked /\ OnLastLine(value, MoveDownFrom)) =>
           cursor.offset_x_hint
               = WidthUnsplit(byte_slice(value, LineStart(value, len_bytes(value)),
                                         len_bytes(value)))

\* move_down has measured a line split inside its run of tabs and inside its
\* text.
C33_Witness ==
    /\ Acted("move_down")
    /\ ~panicked
    /\ value = <<"tab", "tab", "a">>
    /\ chunk_ends = {1}
    /\ tab_width = 3
    /\ cursor.offset_x_hint = 7

\* move_down has measured a line split inside its text, before a tab.
C33_TextSplitReached ==
    /\ Acted("move_down")
    /\ ~panicked
    /\ value = <<"a", "a", "tab">>
    /\ chunk_ends = {1}
    /\ tab_width = 2
    /\ cursor.offset_x_hint = 4

\* The line above (move_up) or below (move_down) the position the last move
\* started from, -1 when there is none.
TargetLineNum ==
    LET n == byte_to_line(last.value, VerticalFrom)
    IN  IF last.op = "move_up" THEN n - 1
        ELSE IF n + 1 < len_lines(last.value) THEN n + 1
        ELSE 0 - 1

\* The last operation was a move_up or a move_down towards a line that is
\* empty or holds its terminator only.
MovedOntoEmptyLine ==
    /\ Acted("move_up") \/ Acted("move_down")
    /\ ~(last.op = "move_up" /\ PreState.kind = "Index" /\ PreState.start = 0)
    /\ TargetLineNum >= 0
    /\ StartsWithTerminator(line(last.value, TargetLineNum))

\* The column the last move started from: the hint, or the offset of its
\* origin without one.
OriginColumn ==
    IF last.cursor.offset_x_hint # None THEN last.cursor.offset_x_hint
    ELSE offset_x_of_index(VerticalFrom, last.value, tab_width)

\* The move back: move_down after a move_up, move_up after a move_down.
MoveBack ==
    IF last.op = "move_up" THEN move_down(Me, renderer, tab_width)
    ELSE move_up(Me, renderer, tab_width)

\* C34 (empty target line short-circuit): a move_up or move_down towards a
\* line that is empty or holds its terminator only completes, whatever the
\* provider answers, at the start of that line and remembers the column it
\* came with (the hint, or the offset of its origin without one).
C34_EmptyLineShortCircuit ==
    MovedOntoEmptyLine =>
        /\ ~panicked
        /\ cursor.state = Index(line_to_byte(value, TargetLineNum))
        /\ cursor.offset_x_hint = OriginColumn

\* C34 with its conclusion: the move back, from an Index that had no hint,
\* drawn by the monospace provider, completes at the column of the origin.
C34_ShortCircuitAndReturn ==
    /\ C34_EmptyLineShortCircuit
    /\ (MovedOntoEmptyLine /\ renderer = Monospace /\ PreState.kind = "Index"
            /\ last.cursor.offset_x_hint = None) =>
           /\ MoveBack.ok
           /\ offset_x_of_index(end(MoveBack.cursor, value), value, tab_width)
                  = OriginColumn

\* The non-empty lines of the buffer, in order.
NonEmptyLines(v) ==
    SelectSeq([n \in 1..len_lines(v) |-> line(v, n - 1)], LAMBDA l : l # <<>>)

\* Where character k of line l is drawn once every tab before it takes
\* tab_width places.
DrawnAt(l, k) ==
    k + (tab_width - 1) * Cardinality({j \in 1..(k - 1) : l[j] = "tab"})

\* d is l with every tab drawn as tab_width spaces and every other
\* character unchanged.
DrawsLine(d, l) ==
    /\ Len(d) = DrawnAt(l, Len(l) + 1) - 1
    /\ \A k \in 1..Len(l) :
           IF l[k] = "tab"
           THEN \A j \in 0..(tab_width - 1) : d[DrawnAt(l, k) + j] = "sp"
           ELSE d[DrawnAt(l, k)] = l[k]

\* C35 (line display): display yields one item per non-empty line of the
\* buffer, in order, each the text of its line, terminator included, with every
\* tab drawn as exactly tab_width spaces and every other character unchanged;
\* a line of "\n" only is yielded as "\n".
C35_LineDisplay ==
    LET shown == display_lines(value, tab_width)
        lines == NonEmptyLines(value)
    IN  /\ Len(shown) = Len(lines)
        /\ \A n \in 1..Len(lines) :
               /\ DrawsLine(shown[n], lines[n])
               /\ lines[n] = <<"lf">> => shown[n] = <<"lf">>

\* A line with a tab that ends a storage chunk, then a line of "\n" only, has
\* been drawn after a move.
C35_Witness ==
    /\ value = <<"tab", "lf", "lf">>
    /\ chunk_ends = {1}
    /\ tab_width = 2
    /\ Acted("move_down")
    /\ display_lines(value, tab_width) = <<<<"sp", "sp", "lf">>, <<"lf">>>>

\* The last event was a '\r' the widget took, with the cursor at an index.
ReceivedCr ==
    /\ Acted("character_received")
    /\ last.text = <<"cr">>
    /\ status = "Captured"
    /\ PreState.kind = "Index"

\* C36 (carriage-return input): a '\r' received by the focused widget with the
\* cursor at index i leaves old[0..i] + "\r\n" + old[i..] in the buffer and the
\* cursor at Index(i + 2), right after the pair, whatever follows the cursor.
C36_CarriageReturnInput ==
    ReceivedCr =>
        /\ ~panicked
        /\ Bytes(value) = Splice(Bytes(last.value), PreState.start,
                                 <<"cr", "lf">>, PreState.start)
        /\ cursor.state = Index(PreState.start + 2)

\* C36 for a '\r' received where no "\n" follows the cursor.
C36_BeforeOtherText ==
    (ReceivedCr /\ ~(PreState.start < Len(last.value)
                        /\ last.value[PreState.start + 1] = "lf")) =>
        /\ ~panicked
        /\ Bytes(value) = Splice(Bytes(last.value), PreState.start,
                                 <<"cr", "lf">>, PreState.start)
        /\ cursor.state = Index(PreState.start + 2)

KeyboardEvents == {"character_received", "key_pressed", "key_released"}

Handled(op) == pc = "idle" /\ pc' = "handled" /\ last'.op = op

\* C37 (focus gating): an unfocused widget leaves the buffer, the cursor,
\* is_pasting and the stored modifiers as they are on CharacterReceived,
\* KeyPressed and KeyReleased and returns Ignored; focus changes on a left
\* press or finger press only, and after one the widget is focused iff the
\* press was inside its bounds.
C37_FocusGating ==
    [][/\ (~is_focused /\ \E op \in KeyboardEvents : Handled(op)) =>
              /\ value' = value
              /\ cursor' = cursor
              /\ is_pasting' = is_pasting
              /\ keyboard_modifiers' = keyboard_modifiers
              /\ status' = "Ignored"
              /\ ~panicked'
       /\ is_focused' # is_focused => Handled("button_pressed")
       /\ Handled("button_pressed") => is_focused' = last'.pos[1]]_vars

\* A character has come to an unfocused widget that holds text.
C37_Witness ==
    /\ Acted("character_received")
    /\ ~is_focused
    /\ value = last.value
    /\ value # <<>>
    /\ status = "Ignored"

\* A press outside the bounds has taken the focus away.
C37_FocusLost ==
    /\ Acted("button_pressed")
    /\ last.pos[1] = FALSE
    /\ ~is_focused
    /\ value # <<>>

PressedV == Handled("key_pressed") /\ last'.pos = "V"

\* C38 (paste-repeat protocol): is_pasting becomes Some(content), the content
\* of the clipboard, on a press of V with the command modifier and on nothing
\* else; it stays Some until V is released, Escape is pressed or V is pressed
\* without the command modifier, each of which makes it None in the focused
\* widget; while it is Some, a press of V with the command modifier pastes the
\* captured content, whatever the clipboard holds by then, and a
\* CharacterReceived leaves the buffer as it is.
C38_PasteRepeat ==
    [][/\ (~is_pasting.some /\ is_pasting'.some) =>
              /\ PressedV /\ is_focused /\ command(keyboard_modifiers)
              /\ is_pasting'.content = clipboard
       /\ (is_focused /\ PressedV /\ command(keyboard_modifiers)) =>
              is_pasting'.some
       /\ (is_pasting.some /\ ~is_pasting'.some) =>
              \/ Handled("key_released") /\ last'.pos = "V"
              \/ Handled("key_pressed") /\ last'.pos = "Escape"
              \/ PressedV /\ ~command(keyboard_modifiers)
       /\ (is_focused /\ (\/ Handled("key_released") /\ last'.pos = "V"
                          \/ Handled("key_pressed") /\ last'.pos = "Escape"
                          \/ PressedV /\ ~command(keyboard_modifiers))) =>
              ~is_pasting'.some
       /\ (is_pasting.some /\ is_focused /\ PressedV
               /\ command(keyboard_modifiers)) =>
              /\ is_pasting' = is_pasting
              /\ value' = Editor_paste(Me, is_pasting.content).value
              /\ cursor' = Editor_paste(Me, is_pasting.content).cursor
       /\ (is_pasting.some /\ Handled("character_received")) =>
              value' = value]_vars

\* A second press of command+V has pasted the captured "a" again while the
\* clipboard holds another text.
C38_Witness ==
    /\ Acted("key_pressed")
    /\ last.pos = "V"
    /\ is_pasting = Pasting(<<"a">>)
    /\ clipboard = <<"lf">>
    /\ last.value = <<"a">>
    /\ value = <<"a", "a">>

\* The tab that is active in a list, 0 when the index names none.
ActiveTabOf(ts, i) == IF i < Len(ts) THEN ts[i + 1] ELSE 0

\* The last call was op, with an index of the list, and returned.
Called(op) ==
    /\ last_tabs.op = op
    /\ ~panicked

\* C39 (active-tab invariant): after any pushes, removals of a tab of the list
\* and activations of a tab of the list, active_tab names a tab whenever there
\* is one; a push makes the new tab the active one, the removal of a tab before
\* the active one keeps the same tab active, and the removal of a tab after it
\* leaves active_tab as it was.
C39_ActiveTab ==
    /\ (~panicked /\ tabs # <<>>) => active_tab < Len(tabs)
    /\ Called("push") =>
           /\ active_tab = Len(tabs) - 1
           /\ ActiveTabOf(tabs, active_tab) = last_tabs.index
    /\ (Called("remove") /\ last_tabs.index < last_tabs.active_tab) =>
           ActiveTabOf(tabs, active_tab)
               = ActiveTabOf(last_tabs.tabs, last_tabs.active_tab)
    /\ (Called("remove") /\ last_tabs.index > last_tabs.active_tab) =>
           active_tab = last_tabs.active_tab
    /\ Called("view") => (tabs = last_tabs.tabs /\ active_tab = last_tabs.active_tab)

\* The last tab of three was active and has been removed.
C39_Witness ==
    /\ Called("remove")
    /\ Len(last_tabs.tabs) = 3
    /\ last_tabs.active_tab = 2
    /\ last_tabs.index = 2
    /\ active_tab = 1

\* A tab before the active one has been removed.
C39_RemovedBefore ==
    /\ Called("remove")
    /\ last_tabs.index < last_tabs.active_tab
    /\ active_tab = last_tabs.active_tab - 1

\* A tab after the active one has been removed.
C39_RemovedAfter ==
    /\ Called("remove")
    /\ last_tabs.index > last_tabs.active_tab
    /\ Len(tabs) = 2

====
